---- MODULE Spec2Model ----
(***************************************************************************)
(* Pipeline orchestration core of the TDM backend: the decision engine     *)
(* (services/decision_engine.py), the workflow orchestrator                *)
(* (services/workflow_orchestrator.py), the step services that write the   *)
(* Job / JobLog / Lineage rows (services/subsetting.py, masking.py,        *)
(* provisioning.py, synthetic_enhanced.py) and the routers that start      *)
(* them.                                                                   *)
(*                                                                         *)
(* Conventions.  A Python value that is only ever tested for truthiness is *)
(* a BOOLEAN (connection_string, domain).  An optional string id is a      *)
(* string, "" standing for None.  An optional list is a sequence, <<>>     *)
(* standing for both None and the empty list wherever the code only tests  *)
(* its truthiness.  Test-case content is a sequence of tokens (see         *)
(* Tokens); the text it stands for is the tokens joined by one blank.      *)
(***************************************************************************)
EXTENDS Integers, Sequences, FiniteSets, TLC

VARIABLES
    req,             \* the WorkflowRequest accepted by POST /workflow/execute
    wfPc,            \* where the background task of that request stands
    operations,      \* execute_workflow: local `operations`
    result,          \* execute_workflow: local `result["operations"]`, in insertion order
    jobContext,      \* execute_workflow: local `job_context`
    attempted,       \* the _run_* handlers entered so far, in order
    handed,          \* the id argument each of those handlers was called with
    jobs,            \* table jobs: job id -> row
    finishedWrites,  \* per job id, how many committed writes assigned finished_at
    jobLogs,         \* table job_logs, in creation order
    lineage,         \* table lineage, in creation order
    storeFault,      \* a commit of the orchestrator's session has raised
    svc,             \* the single-operation invocation (POST /subset, /mask, ...)
    ci,              \* POST /workflow/classify-intent: arguments, intent and plan
    pd,              \* POST /workflow/analyze-test-case and _has_form_fields
    sub,             \* run_subset: request, source, the rows each run was given, its extraction
    fb,              \* services/fallbacks.py: one call of a fallback wrapper
    mk,              \* services/masking.run_mask: the dataset store and one call
    disc             \* services/schema_discovery.run_discovery: two concurrent calls

vars == <<req, wfPc, operations, result, jobContext, attempted, handed, jobs,
          finishedWrites, jobLogs, lineage, storeFault, svc, ci, pd, sub, fb, mk, disc>>

---------------------------------------------------------------------------
(* Bounds *)

MaxTokens == 4

---------------------------------------------------------------------------
(* Generic helpers *)

Range(s) == {s[i] : i \in 1..Len(s)}

Truthy(s) == s # ""

OrElse(a, b) == IF Truthy(a) THEN a ELSE b

AppendIfAbsent(s, x) == IF x \in Range(s) THEN s ELSE Append(s, x)

RECURSIVE SeqsUpTo(_, _)
SeqsUpTo(S, n) ==
    IF n = 0 THEN {<<>>}
    ELSE LET shorter == SeqsUpTo(S, n - 1)
         IN  shorter \cup {Append(s, x) : s \in {t \in shorter : Len(t) = n - 1}, x \in S}

---------------------------------------------------------------------------
(* Pattern detection: decision_engine._has_form_fields *)

\* Tokens of test-case text.  A text is its tokens joined by single blanks,
\* and each token is one concrete word:
\*   verb   enter (fill, input, type alike)      word   email
\*   quoted "email"                              qtext  "a-b", quoted and not one word
\*   sym    test@example.com                     call   send_keys(x)
\*   as, in, click  those words                  sp     the empty word: one more blank
Tokens == {"verb", "word", "quoted", "qtext", "sym", "as", "in", "click", "call", "sp"}

\* tokens matched by ["']?\w+["']?
WordLike == {"verb", "word", "quoted", "as", "in", "click", "field", "the", "I", "Given"}

\* tokens matched by ["'][^"']+["']
QuotedLike == {"quoted", "qtext"}

\* index of the first token after position i that is not white space, 0 if none
RECURSIVE NextTok(_, _)
NextTok(s, i) ==
    IF i >= Len(s) THEN 0
    ELSE IF s[i + 1] # "sp" THEN i + 1 ELSE NextTok(s, i + 1)

\* content.strip() is empty
IsBlank(content) == \A i \in 1..Len(content) : content[i] = "sp"

\* \b(?:enter|fill|input|type)\s+X\s+kw\s+  with X one of `mid`
PhraseMatch(s, mid, kw) ==
    \E i \in 1..Len(s) :
        /\ s[i] = "verb"
        /\ LET j == NextTok(s, i)
           IN  /\ j # 0
               /\ s[j] \in mid
               /\ LET k == NextTok(s, j)
                  IN  /\ k # 0
                      /\ s[k] = kw
                      /\ k < Len(s)

\* send_keys\s*\([^)]+\) | \.fill\s*\([^)]+\) | \.type\s*\([^)]+\)
CallMatch(s) == \E i \in 1..Len(s) : s[i] = "call"

_has_form_fields(content) ==
    IF content = <<>> \/ IsBlank(content) THEN FALSE
    ELSE \/ PhraseMatch(content, WordLike, "as")
         \/ PhraseMatch(content, QuotedLike, "in")
         \/ CallMatch(content)

---------------------------------------------------------------------------
(* Decision engine: classify_intent and generate_pipeline_plan *)

INTENT_OPERATIONS ==
    <<"discover", "pii", "subset", "mask", "synthetic", "provision",
      "schema_fusion", "quality">>

\* some url of the list is not blank: any(u.strip() for u in test_case_urls)
AnyNonBlank(urls) == \E i \in 1..Len(urls) : urls[i] = "url"

FlagOperations(flags) == IF flags.has_operations THEN flags.operations ELSE <<>>

FlagEnableSubset(flags) == IF flags.has_enable_subset THEN flags.enable_subset ELSE TRUE

InitialIntent ==
    [requires_ui_crawl |-> FALSE, requires_db |-> FALSE, requires_api |-> FALSE,
     requires_domain_fallback |-> FALSE, operations |-> <<>>,
     preferred_synthetic_mode |-> "schema"]

\* a plausible slip: subset decided by enable_subset alone, the flag map's
\* operations not consulted
RuleConnectionEnableFlagOnly(i, a) ==
    IF a.connection_string
    THEN LET o1 == AppendIfAbsent(i.operations, "discover")
             o2 == IF FlagEnableSubset(a.config_flags) THEN Append(o1, "subset") ELSE o1
         IN  [i EXCEPT !.requires_db = TRUE, !.operations = Append(o2, "pii")]
    ELSE i

\* Rule: connection_string -> discover + subset (+ pii)
RuleConnection(i, a) ==
    IF a.connection_string
    THEN LET o1 == AppendIfAbsent(i.operations, "discover")
             o2 == IF "subset" \in Range(FlagOperations(a.config_flags))
                      \/ FlagEnableSubset(a.config_flags)
                   THEN Append(o1, "subset") ELSE o1
         IN  [i EXCEPT !.requires_db = TRUE, !.operations = Append(o2, "pii")]
    ELSE i

\* Rule: test case URLs -> enable crawl
RuleUrls(i, a) ==
    IF a.test_case_urls # <<>> /\ AnyNonBlank(a.test_case_urls)
    THEN [i EXCEPT !.requires_ui_crawl = TRUE,
                   !.operations = AppendIfAbsent(i.operations, "synthetic"),
                   !.preferred_synthetic_mode = "url"]
    ELSE i

\* Rule: domain provided -> enable domain-pack
RuleDomain(i, a) ==
    IF a.domain
    THEN [i EXCEPT !.operations = AppendIfAbsent(i.operations, "synthetic"),
                   !.preferred_synthetic_mode =
                       IF ~i.requires_ui_crawl /\ ~a.schema_version_id
                       THEN "domain" ELSE i.preferred_synthetic_mode]
    ELSE i

\* Rule: test case content with form fields -> test_case mode
RuleContent(i, a) ==
    IF a.test_case_content # <<>> /\ _has_form_fields(a.test_case_content)
    THEN [i EXCEPT !.operations = AppendIfAbsent(i.operations, "synthetic"),
                   !.preferred_synthetic_mode =
                       IF ~i.requires_ui_crawl
                       THEN "test_case" ELSE i.preferred_synthetic_mode]
    ELSE i

\* a plausible slip: the fallback applied without looking at the hints
RuleFallbackAlways(i, a) ==
    [i EXCEPT !.requires_domain_fallback = TRUE,
              !.operations = AppendIfAbsent(i.operations, "synthetic"),
              !.preferred_synthetic_mode = "domain"]

\* Rule: no schema found -> domain fallback
RuleFallback(i, a) ==
    IF /\ ~a.schema_version_id
       /\ ~a.connection_string
       /\ (a.domain \/ a.test_case_content # <<>> \/ a.test_case_urls # <<>>)
    THEN [i EXCEPT !.requires_domain_fallback = TRUE,
                   !.operations = AppendIfAbsent(i.operations, "synthetic"),
                   !.preferred_synthetic_mode =
                       IF a.domain /\ (a.test_case_content # <<>> \/ a.test_case_urls # <<>>)
                       THEN "hybrid" ELSE "domain"]
    ELSE i

\* a plausible slip: masking enabled only where an earlier rule has already
\* planned pii
RuleMaskAfterPii(i, a) ==
    IF (a.schema_version_id \/ a.connection_string) /\ "pii" \in Range(i.operations)
    THEN [i EXCEPT !.operations = Append(i.operations, "mask")]
    ELSE i

\* Rule: PII detection -> auto-enable masking when we have schema
RuleMask(i, a) ==
    IF a.schema_version_id \/ a.connection_string
    THEN [i EXCEPT !.operations = Append(AppendIfAbsent(i.operations, "pii"), "mask")]
    ELSE i

\* Always add provision if synthetic or subset
RuleProvision(i, a) ==
    IF "synthetic" \in Range(i.operations) \/ "subset" \in Range(i.operations)
    THEN [i EXCEPT !.operations = AppendIfAbsent(i.operations, "provision")]
    ELSE i

\* the elements of s not in `seen`, each once, in order of first occurrence
RECURSIVE FirstOccurrences(_, _)
FirstOccurrences(s, seen) ==
    IF s = <<>> THEN <<>>
    ELSE IF Head(s) \in seen THEN FirstOccurrences(Tail(s), seen)
    ELSE <<Head(s)>> \o FirstOccurrences(Tail(s), seen \cup {Head(s)})

\* a plausible slip: the merged list is returned as the rules left it
DeduplicateAndOrderSkipped(ops) == ops

\* Deduplicate and order
DeduplicateAndOrder(ops) ==
    LET ordered == SelectSeq(INTENT_OPERATIONS, LAMBDA op : op \in Range(ops))
    IN  ordered \o FirstOccurrences(ops, Range(ordered))

classify_intent(a) ==
    LET i1 == RuleConnection(InitialIntent, a)
        i2 == RuleUrls(i1, a)
        i3 == RuleDomain(i2, a)
        i4 == RuleContent(i3, a)
        i5 == RuleFallback(i4, a)
        i6 == RuleMask(i5, a)
        i7 == RuleProvision(i6, a)
    IN  [i7 EXCEPT !.operations = DeduplicateAndOrder(i7.operations)]

NoHint == [present |-> FALSE, mode |-> "", crawl_first |-> FALSE, use_domain_fallback |-> FALSE]

\* a plausible slip: the hint's mode taken from the intent's preferred mode
generate_pipeline_plan_preferred_mode(intent) ==
    LET h1 == IF intent.requires_ui_crawl
              THEN [NoHint EXCEPT !.present = TRUE,
                                  !.mode = intent.preferred_synthetic_mode,
                                  !.crawl_first = TRUE]
              ELSE NoHint
        h2 == IF intent.requires_domain_fallback
              THEN [h1 EXCEPT !.present = TRUE, !.use_domain_fallback = TRUE]
              ELSE h1
    IN  [operations |-> intent.operations,
         preferred_synthetic_mode |-> intent.preferred_synthetic_mode,
         requires_ui_crawl |-> intent.requires_ui_crawl,
         requires_db |-> intent.requires_db,
         requires_domain_fallback |-> intent.requires_domain_fallback,
         synthetic_hint |-> h2]

generate_pipeline_plan(intent) ==
    LET h1 == IF intent.requires_ui_crawl
              THEN [NoHint EXCEPT !.present = TRUE, !.mode = "url", !.crawl_first = TRUE]
              ELSE NoHint
        h2 == IF intent.requires_domain_fallback
              THEN [h1 EXCEPT !.present = TRUE, !.use_domain_fallback = TRUE]
              ELSE h1
    IN  [operations |-> intent.operations,
         preferred_synthetic_mode |-> intent.preferred_synthetic_mode,
         requires_ui_crawl |-> intent.requires_ui_crawl,
         requires_db |-> intent.requires_db,
         requires_domain_fallback |-> intent.requires_domain_fallback,
         synthetic_hint |-> h2]

---------------------------------------------------------------------------
(* The persisted store: tables jobs, job_logs and lineage *)

JobW == "W"    \* the job id POST /workflow/execute returns
JobS == "S"    \* the job id of the single-operation invocation
JobIds == {JobW, JobS}

Terminal == {"completed", "failed"}

NoResult == [kind |-> "none", overall_status |-> "", operations |-> <<>>]

ErrorResult == [kind |-> "error", overall_status |-> "", operations |-> <<>>]

ServiceResult == [kind |-> "service", overall_status |-> "", operations |-> <<>>]

AbsentJob == [status |-> "absent", finished |-> FALSE, result |-> NoResult]

RunningJob == [status |-> "running", finished |-> FALSE, result |-> NoResult]

\* the store as one value, for the operators that compute a handler's writes;
\* `trace` collects what the store holds after each db.commit() of the call
Store ==
    [jobs |-> jobs, fw |-> finishedWrites, logs |-> jobLogs, lineage |-> lineage,
     trace |-> <<>>]

\* the four tables of a store value
Image(st) == [jobs |-> st.jobs, fw |-> st.fw, logs |-> st.logs, lineage |-> st.lineage]

\* db.commit(): what the session holds becomes visible to every other session
Commit(st) ==
    CHOOSE c \in {[s EXCEPT !.trace = Append(@, Image(s))] : s \in {st}} : TRUE

\* the attributes of the mapped class JobLog (models.py)
JobLogAttrs == {"id", "job_id", "level", "message", "created_at", "job"}

\* the keyword arguments _log_step passes to JobLog(...)
LogStepKwargs == {"job_id", "level", "message", "step", "details"}

\* the declarative constructor raises TypeError for a keyword that is no attribute
ConstructorRaises(attrs, kwargs) == ~(kwargs \subseteq attrs)

\* _log_step raises before anything is added to the session
LogStepRaises == ConstructorRaises(JobLogAttrs, LogStepKwargs)

\* _log_step when the constructor accepts its arguments: add and commit
_log_step(st, step, status) ==
    Commit([st EXCEPT !.logs = Append(@, [job_id |-> JobW, step |-> step,
                                          level |-> status, message |-> status])])

\* the services' local log(msg, level): JobLog(job_id, level, message), commit
Log(st, j, level, msg) ==
    Commit([st EXCEPT !.logs = Append(@, [job_id |-> j, step |-> "", level |-> level,
                                          message |-> msg])])

\* job.status = "failed"; db.commit() (the early returns of the services)
MarkFailed(st, j) == Commit([st EXCEPT !.jobs[j].status = "failed"])

\* the services' except branch: status failed, result {"error": ...}, one
\* error log, all in one commit
FailWithError(st, j) ==
    Log([st EXCEPT !.jobs[j].status = "failed", !.jobs[j].result = ErrorResult],
        j, "error", "exception")

\* job.status = "completed", job.result_json = ..., job.finished_at = utcnow()
MarkCompleted(st, j) ==
    [st EXCEPT !.jobs[j] = [status |-> "completed", finished |-> TRUE,
                            result |-> ServiceResult],
               !.fw[j] = @ + 1]

AddLineage(st, j, op, src, tgt) ==
    [st EXCEPT !.lineage = Append(@, [job_id |-> j, operation |-> op,
                                      source_id |-> src, target_id |-> tgt])]

\* the job_logs rows of a job, oldest first
LogsOf(logs, j) == SelectSeq(logs, LAMBDA l : l.job_id = j)

\* the lineage rows of a job
LineageOf(edges, j) == SelectSeq(edges, LAMBDA e : e.job_id = j)

---------------------------------------------------------------------------
(* The step services.  `o` is what the environment makes of the call: how  *)
(* it ends (kind), what each table, parquet file or entity of its loop     *)
(* comes to, in the order of the loop (tables), and, for run_provision,    *)
(* the smoke checks passed before an exception (smoke).  The kinds are     *)
(* "ok"; the early returns "notfound" and "noconn"; and "raise", an        *)
(* exception after the tables of `tables` have been dealt with: in the     *)
(* table that comes next or in a statement after the loop.  An exception   *)
(* in a db.commit() of the service itself is not among them.  Each service *)
(* returns the store after its commits, whether it raised, and its return  *)
(* value.                                                                  *)

\* bound: the tables of a schema version, the parquet files of a dataset,
\* the entities of a crawled schema
MaxTables == 3

Outcome(kind, tables, smoke) == [kind |-> kind, tables |-> tables, smoke |-> smoke]

\* the outcomes that end before the loop over the tables
Early(kinds) == {Outcome(k, <<>>, 0) : k \in kinds}

\* the outcomes of a loop over at least `least` tables, each of which comes
\* to one of `events`
Looped(kinds, events, least) ==
    {Outcome(k, ts, 0) : k \in kinds,
                         ts \in {s \in SeqsUpTo(events, MaxTables) : Len(s) >= least}}

\* the outcomes of the call made by a step, a single-operation invocation
\* or a mode of synthetic generation.
\*   run_discovery, detect_pii: return or raise.
\*   run_subset: the root table is read first ("root"); a table without
\*     relationship edge is read whole ("no_fk") or its failure is logged as
\*     a warning ("failed"); a table with an edge is read by the ids of its
\*     parent ("fk") or passed over without a log ("skipped": parent not
\*     extracted, or no parent ids).  "raise" before the root is
\*     create_engine, _build_fk_map or the query of the root table.
\*   run_mask, run_provision: one parquet file after the other ("ok");
\*     an empty directory has none.
\*   the generators from a schema version or a crawled schema: a table with
\*     columns ("ok") or without ("skipped"); a crawled schema without
\*     entities ("notfound") is logged and generates nothing, and
\*     "raise_crawl" is an exception of the crawler's __exit__ or
\*     _merge_schemas, before the schema is logged.
\*   the generator from a domain: the fallback schema of the domain has two
\*     entities (ecommerce, banking) or one, all with fields.
\*   the generator from test-case content: one entity, "user".
OutcomesOf(call) ==
    CASE call \in {"discover", "pii", ""} -> Early({"ok", "raise"})
      [] call = "subset" ->
            Early({"notfound", "raise"})
            \cup {Outcome(k, <<"root">> \o ts, 0) :
                     k \in {"ok", "raise"},
                     ts \in SeqsUpTo({"fk", "no_fk", "failed", "skipped"}, MaxTables - 1)}
      [] call = "mask" -> Early({"notfound"}) \cup Looped({"ok", "raise"}, {"ok"}, 0)
      [] call = "provision" ->
            Early({"noconn", "notfound"}) \cup Looped({"ok"}, {"ok"}, 0)
            \cup UNION {{Outcome("raise", ts, m) :
                            m \in {n \in 0..MaxTables : n = 0 \/ n < Len(ts)}} :
                        ts \in SeqsUpTo({"ok"}, MaxTables)}
      [] call \in {"synthetic_test_cases", "test_cases"} ->
            Early({"raise_crawl", "notfound", "notfound_raise"})
            \cup Looped({"raise"}, {"ok", "skipped"}, 0)
            \cup Looped({"ok"}, {"ok", "skipped"}, 1)
      [] call \in {"synthetic_domain", "domain"} ->
            {Outcome("raise", ts, 0) : ts \in {<<>>, <<"ok">>, <<"ok", "ok">>}}
            \cup {Outcome("ok", ts, 0) : ts \in {<<"ok">>, <<"ok", "ok">>}}
      [] call = "test_case_content" ->
            {Outcome("raise", <<>>, 0), Outcome("raise", <<"ok">>, 0),
             Outcome("ok", <<"ok">>, 0)}
      [] OTHER -> Early({"notfound"}) \cup Looped({"ok", "raise"}, {"ok", "skipped"}, 0)

Ret(st, raised, ret) == [st |-> st, raised |-> raised, ret |-> ret]

Entry(level, message) == [level |-> level, message |-> message]

\* the progress log of one table of the loop of `call`, none where the code
\* passes the table over
TableLog(call, event) ==
    CASE event = "skipped" -> <<>>
      [] event = "root" -> <<Entry("info", "Root table")>>
      [] event = "fk" -> <<Entry("info", "Table")>>
      [] event = "no_fk" -> <<Entry("info", "Table (no FK)")>>
      [] event = "failed" -> <<Entry("warning", "Table failed")>>
      [] call = "mask" -> <<Entry("info", "Masked table")>>
      [] call = "provision" -> <<Entry("success", "Loaded")>>
      [] OTHER -> <<Entry("info", "Generated")>>

\* log(...) for each table of the loop, each with its own commit
RECURSIVE LogTables(_, _, _, _, _)
LogTables(st, j, call, tables, k) ==
    IF k > Len(tables) THEN st
    ELSE LogTables(IF TableLog(call, tables[k]) = <<>> THEN st
                   ELSE Log(st, j, TableLog(call, tables[k])[1].level,
                            TableLog(call, tables[k])[1].message),
                   j, call, tables, k + 1)

\* for t in tables_loaded: ... log(f"Smoke check {t}: {r} rows")
RECURSIVE LogSmokeChecks(_, _, _)
LogSmokeChecks(st, j, n) ==
    IF n = 0 THEN st ELSE Log(LogSmokeChecks(st, j, n - 1), j, "info", "Smoke check")

\* a call with the id of a Job row that does not exist raises ValueError
\* before anything is logged, and its except branch, finding no Job, writes
\* nothing.  After the loop the exception is one of ensure_dataset_dir,
\* to_parquet or the flush
run_subset(st, j, sv, o) ==
    LET s1 == Log(st, j, "info", "Starting subset extraction")
        s2 == LogTables(s1, j, "subset", o.tables, 1)
    IN  CASE st.jobs[j].status = "absent" -> Ret(st, TRUE, "")
          [] o.kind = "notfound" ->
                Ret(MarkFailed(Log(s1, j, "error", "Schema version not found"), j),
                    FALSE, "")
          [] o.kind = "raise" -> Ret(FailWithError(s2, j), TRUE, "")
          [] OTHER ->
                Ret(Log(MarkCompleted(AddLineage(s2, j, "subset", sv, "dv_subset"), j),
                        j, "info", "Subset completed"),
                    FALSE, "dv_subset")

\* raise: ensure_dataset_dir, or read_parquet or to_parquet of the next
\* file, or the query of the dataset version after the loop
run_mask(st, j, dv, o) ==
    LET s1 == Log(st, j, "info", "Starting masking")
        s2 == LogTables(s1, j, "mask", o.tables, 1)
    IN  CASE o.kind = "notfound" ->
                Ret(MarkFailed(Log(s1, j, "error", "Dataset not found"), j), FALSE, "")
          [] o.kind = "raise" -> Ret(FailWithError(s2, j), TRUE, "")
          [] OTHER ->
                Ret(Log(MarkCompleted(AddLineage(s2, j, "mask", dv, "dv_mask"), j),
                        j, "info", "Masking completed"),
                    FALSE, "dv_mask")

\* the return value is the status of the returned dict.  Every file is
\* loaded and logged, then, if run_smoke_tests, every loaded table is
\* counted and logged.  raise: read_parquet, DROP TABLE or to_sql of the next
\* file, or the COUNT of the next smoke check
run_provision(st, j, dv, run_smoke_tests, o) ==
    LET s1 == Log(st, j, "info", "Starting provisioning")
        s2 == LogTables(s1, j, "provision", o.tables, 1)
        s3 == LogSmokeChecks(s2, j, IF ~run_smoke_tests THEN 0
                                    ELSE IF o.kind = "raise" THEN o.smoke
                                    ELSE Len(o.tables))
    IN  CASE o.kind = "noconn" ->
                Ret(MarkFailed(Log(s1, j, "error", "No connection string for environment"),
                               j),
                    FALSE, "failed")
          [] o.kind = "notfound" ->
                Ret(MarkFailed(Log(s1, j, "error", "Dataset not found"), j),
                    FALSE, "failed")
          [] o.kind = "raise" -> Ret(FailWithError(s3, j), TRUE, "")
          [] OTHER ->
                Ret(Log(MarkCompleted(AddLineage(s3, j, "provision", dv, "env"), j),
                        j, "info", "Provisioning complete"),
                    FALSE, "completed")

\* services/synthetic.py run_synthetic, which no router and no handler
\* calls: the lineage edge has operation "synthetic" and the schema version
\* as its source.  raise: ensure_dataset_dir, to_parquet of the next table
\* or the flush
run_synthetic(st, j, sv, o) ==
    LET s1 == Log(st, j, "info", "Starting synthetic generation")
        s2 == LogTables(s1, j, "run_synthetic", o.tables, 1)
    IN  CASE o.kind = "notfound" ->
                Ret(MarkFailed(Log(s1, j, "error", "Schema version not found"), j),
                    FALSE, "dict_none")
          [] o.kind = "raise" -> Ret(FailWithError(s2, j), TRUE, "")
          [] OTHER ->
                Ret(Log(MarkCompleted(AddLineage(s2, j, "synthetic", sv, "dv_synthetic"), j),
                        j, "info", "Synthetic generation completed"),
                    FALSE, "dict_dv_synthetic")

\* _save_dataset_metadata: the DatasetVersion row, the Lineage edge with
\* operation = source_type and source_id = schema_version_id or "none", the
\* job completed; the caller's next log commits it
_save_dataset_metadata(st, j, schema_version_id, tgt, source_type) ==
    MarkCompleted(AddLineage(st, j, source_type, OrElse(schema_version_id, "none"), tgt), j)

\* returns a dict {"job_id", "dataset_version_id"}.  raise: ensure_dataset_dir,
\* to_parquet of the next table or the flush of _save_dataset_metadata
generate_from_schema_version(st, j, sv, o) ==
    LET s1 == Log(st, j, "info", "Starting synthetic generation from schema version")
        s2 == LogTables(s1, j, "synthetic_schema", o.tables, 1)
    IN  CASE o.kind = "notfound" ->
                Ret(MarkFailed(Log(s1, j, "error", "Schema version not found"), j),
                    FALSE, "dict_none")
          [] o.kind = "raise" -> Ret(FailWithError(s2, j), TRUE, "")
          [] OTHER ->
                Ret(Log(_save_dataset_metadata(s2, j, sv, "dv_synthetic", "schema_version"),
                        j, "info", "Synthetic generation completed"),
                    FALSE, "dict_dv_synthetic")

\* returns a dict.  The crawler catches what its pages raise; its __exit__
\* and _merge_schemas are not guarded (raise_crawl).  A schema without
\* entities is logged, the fallback is announced and nothing is generated
\* (notfound; notfound_raise: ensure_dataset_dir or the flush raises then).
\* raise: ensure_dataset_dir, to_parquet of the next entity or the flush of
\* _save_dataset_metadata
generate_from_test_cases(st, j, o) ==
    LET s0 == Log(st, j, "info", "Starting synthetic generation from test cases")
        s1 == Log(s0, j, "info", "Crawled schema")
        s2 == LogTables(s1, j, "synthetic_test_cases", o.tables, 1)
        s3 == Log(Log(s1, j, "warning", "No entities found in crawled schema"),
                  j, "info", "Using fallback schema")
    IN  CASE o.kind = "raise_crawl" -> Ret(FailWithError(s0, j), TRUE, "")
          [] o.kind = "raise" -> Ret(FailWithError(s2, j), TRUE, "")
          [] o.kind = "notfound_raise" -> Ret(FailWithError(s3, j), TRUE, "")
          [] OTHER ->
                Ret(Log(_save_dataset_metadata(IF o.kind = "notfound" THEN s3 ELSE s2, j, "",
                                            "dv_synthetic", "synthetic_crawled"),
                        j, "info", "Synthetic generation from test cases completed"),
                    FALSE, "dict_dv_synthetic")

\* returns a dict.  raise: ensure_dataset_dir, to_parquet of the next entity
\* or the flush of _save_dataset_metadata, all after the log of the schema
generate_from_domain_scenario(st, j, o) ==
    LET s1 == Log(Log(st, j, "info", "Starting synthetic generation for domain"),
                  j, "info", "Using domain schema")
        s2 == LogTables(s1, j, "synthetic_domain", o.tables, 1)
    IN  CASE o.kind = "raise" -> Ret(FailWithError(s2, j), TRUE, "")
          [] OTHER ->
                Ret(Log(_save_dataset_metadata(s2, j, "", "dv_synthetic", "synthetic"),
                        j, "info", "Synthetic generation from domain scenario completed"),
                    FALSE, "dict_dv_synthetic")

\* The parser reads test-case text made of the tokens of the decision engine
\* (without `sp`: the text is single-spaced) and of five more words:
\*   field, the, I   those words      Given   that word (When, And, Then alike)
\*   findElement     the call findElement(By.id("email"))
\* with verb = enter, word = email, quoted = "email", qtext = "a-b",
\* sym = test@example.com and call = send_keys(x).
FieldTokens == (Tokens \ {"sp"}) \cup {"field", "the", "I", "Given", "findElement"}

\* field_name.lower().replace(" ", "_").replace("-", "_"): what a token adds
\* to a normalised field name, the name being the parts joined by "_"
Atom(t) ==
    CASE t = "verb" -> "enter"
      [] t \in {"word", "quoted"} -> "email"
      [] t = "qtext" -> "a_b"
      [] t = "sym" -> "test@example.com"
      [] t = "call" -> "send_keys(x)"
      [] t = "Given" -> "given"
      [] t = "I" -> "i"
      [] OTHER -> t

\* a capture group ["']?([^"']+)["']? (or "?([^"\n]+)"?) that ends at white
\* space: one quoted token, or a run of tokens without a quote, from a to b
IsGroup(s, a, b) ==
    /\ a <= b
    /\ \/ a = b /\ s[a] \in QuotedLike
       \/ \A k \in a..b : s[k] \notin QuotedLike /\ s[k] # "findElement"

\* the match a regex settles on among the ways it can match: the one ranked
\* first; a way is <<rank, first token of the name, position of `field`>>
\* and <<0, 0>> says there is none
Preferred(ways) ==
    IF ways = {} THEN <<0, 0>>
    ELSE SubSeq(CHOOSE w \in ways : \A v \in ways : w[1] <= v[1], 2, 3)

\* ([^"']+)["']?\s+field, greedy: the last `field` that closes a group which
\* starts at a; 0 when there is none
NameEnd(s, a) ==
    Preferred({<<0 - e, a, e>> :
                  e \in {f \in (a + 1)..Len(s) :
                            s[f] = "field" /\ IsGroup(s, a, f - 1)}})[2]

\* \s+(?:the\s+)?["']?([^"']+)["']?\s+field after the `in` at j: the
\* optional `the` taken first (rank 1), then taken as part of the name
NameAfterIn(s, j) ==
    Preferred({w \in {<<k, j + 3 - k, NameEnd(s, j + 3 - k)>> :
                         k \in {r \in {1, 2} :
                                   r = 2 \/ (j + 1 <= Len(s) /\ s[j + 1] = "the")}} :
                  w[3] # 0})

\* manual_pattern matched at the verb at i: the value group is greedy, so
\* the `in` is the last one the rest of the pattern matches after
ManualAt(s, i) ==
    Preferred({w \in {<<0 - j>> \o NameAfterIn(s, j) :
                         j \in {k \in (i + 2)..Len(s) :
                                   /\ s[i] = "verb" /\ s[k] = "in"
                                   /\ IsGroup(s, i + 1, k - 1)}} :
                  w[3] # 0})

\* cucumber_pattern matched at i: Given I enter "v" in the <name> field (the
\* verb of this pattern is enter alone)
CucumberAt(s, i) ==
    Preferred({w \in {<<1, i + 6, NameEnd(s, i + 6)>> :
                         k \in {r \in {i} :
                                   /\ r + 5 <= Len(s)
                                   /\ s[r] = "Given" /\ s[r + 1] = "I"
                                   /\ s[r + 2] = "verb" /\ s[r + 3] \in QuotedLike
                                   /\ s[r + 4] = "in" /\ s[r + 5] = "the"}} :
                  w[3] # 0})

PatternAt(pattern, s, i) ==
    IF pattern = "cucumber" THEN CucumberAt(s, i) ELSE ManualAt(s, i)

\* re.findall: the matches from left to right, each search starting where
\* the match before it ended; the normalised field names of the matches
RECURSIVE FindAll(_, _, _)
FindAll(pattern, s, p) ==
    IF p > Len(s) THEN {}
    ELSE UNION {IF m[2] = 0 THEN FindAll(pattern, s, p + 1)
                ELSE {[k \in 1..(m[2] - m[1]) |-> Atom(s[m[1] + k - 1])]}
                     \cup FindAll(pattern, s, m[2] + 1) :
                m \in {PatternAt(pattern, s, p)}}

\* the keys entities["user"]["fields"] gets from all_fields: the names of the
\* Cucumber, Selenium and manual matches, equal names being one key
all_fields(content) ==
    (UNION {FindAll(pattern, content, 1) : pattern \in {"cucumber", "manual"}})
    \cup {<<"email">> : i \in {k \in 1..Len(content) : content[k] = "findElement"}}

\* the default schema used when nothing matched
DefaultFields == {<<"id">>, <<"name">>, <<"email">>, <<"created_at">>}

\* the field names of the one entity "user" of the schema the parser returns
_parse_test_case_content(content) ==
    UNION {IF fields # {} THEN fields ELSE DefaultFields :
           fields \in {all_fields(content)}}

\* the second result_json of generate_from_test_case_content
EntitiesResult == [kind |-> "entities", overall_status |-> "", operations |-> <<>>]

\* returns the version id itself, never None: the parsed schema always has
\* the entity "user" with at least one field, so one table is generated.
\* raise: ensure_dataset_dir or to_parquet before the table is logged, the
\* flush of _save_dataset_metadata after it.  The log of the completion
\* commits the completed job; the commit after it adds the second
\* result_json
generate_from_test_case_content(st, j, content, o) ==
    LET s1 == Log(Log(st, j, "info", "Starting synthetic generation from test case content"),
                  j, "info", "Parsed schema")
        schema == _parse_test_case_content(content)
        s2 == IF schema # {} THEN LogTables(s1, j, "test_case_content", o.tables, 1) ELSE s1
        s3 == Log(_save_dataset_metadata(s2, j, "", "dv_synthetic",
                                         "synthetic_test_content"),
                  j, "info", "Synthetic generation from test case content completed")
    IN  IF o.kind = "raise" THEN Ret(FailWithError(s2, j), TRUE, "")
        ELSE Ret(Commit([s3 EXCEPT !.jobs[j].status = "completed",
                                   !.jobs[j].result = EntitiesResult]),
                 FALSE, "dv_synthetic")

---------------------------------------------------------------------------
(* Workflow orchestrator: the per-step handlers of WorkflowOrchestrator.   *)
(* Each returns the store after its commits, whether an exception left the *)
(* handler, and the entry it returns for result["operations"].             *)

StepOps == <<"discover", "pii", "subset", "mask", "synthetic", "provision">>

\* the place of x in a sequence that holds it
PositionIn(s, x) == CHOOSE i \in 1..Len(s) : s[i] = x

StepResult(op, status, dv, sv) ==
    [op |-> op, status |-> status, dataset_version_id |-> dv, schema_version_id |-> sv,
     mode |-> ""]

Escaped(st, op) == [st |-> st, escaped |-> TRUE, res |-> StepResult(op, "failed", "", "")]

Returned(st, res) == [st |-> st, escaped |-> FALSE, res |-> res]

\* except Exception: self._log_step(step, "failed", ...); return {"status": "failed"}
StepFailed(st, op) == Returned(_log_step(st, op, "failed"), StepResult(op, "failed", "", ""))

StepCompleted(st, op, status, dv, sv) ==
    Returned(_log_step(st, op, "completed"), StepResult(op, status, dv, sv))

_run_discovery(st, conn, o) ==
    IF LogStepRaises THEN Escaped(st, "discover")
    ELSE LET s1 == _log_step(st, "discover", "started")
         IN  IF ~conn \/ o.kind = "raise" THEN StepFailed(s1, "discover")
             ELSE StepCompleted(s1, "discover", "completed", "", "sv_discovered")

_run_pii_detection(st, sv, o) ==
    IF LogStepRaises THEN Escaped(st, "pii")
    ELSE LET s1 == _log_step(st, "pii", "started")
         IN  IF o.kind = "raise" THEN StepFailed(s1, "pii")
             ELSE StepCompleted(s1, "pii", "completed", "", sv)

_run_subsetting(st, sv, o) ==
    IF LogStepRaises THEN Escaped(st, "subset")
    ELSE LET r == run_subset(_log_step(st, "subset", "started"), JobW, sv, o)
         IN  IF r.raised THEN StepFailed(r.st, "subset")
             ELSE StepCompleted(r.st, "subset", "completed", r.ret, "")

_run_masking(st, dv, o) ==
    IF LogStepRaises THEN Escaped(st, "mask")
    ELSE LET r == run_mask(_log_step(st, "mask", "started"), JobW, dv, o)
         IN  IF r.raised THEN StepFailed(r.st, "mask")
             ELSE StepCompleted(r.st, "mask", "completed", r.ret, "")

\* Determine generation mode: the if/elif chain of _run_synthetic; "" is
\* the final else, which raises ValueError
SyntheticMode(sv, content, urls, domain) ==
    IF content # <<>> THEN "test_case_content"
    ELSE IF urls # <<>> THEN "test_cases"
    ELSE IF domain THEN "domain"
    ELSE IF Truthy(sv) THEN "schema"
    ELSE ""

_run_synthetic(st, sv, content, urls, domain, o) ==
    IF LogStepRaises THEN Escaped(st, "synthetic")
    ELSE LET s1 == _log_step(st, "synthetic", "started")
             mode == SyntheticMode(sv, content, urls, domain)
             r  == CASE mode = "test_case_content" ->
                            generate_from_test_case_content(s1, JobW, content, o)
                      [] mode = "test_cases" -> generate_from_test_cases(s1, JobW, o)
                      [] mode = "domain" -> generate_from_domain_scenario(s1, JobW, o)
                      [] mode = "schema" -> generate_from_schema_version(s1, JobW, sv, o)
                      [] OTHER -> Ret(s1, TRUE, "")
             done == StepCompleted(r.st, "synthetic", "completed", r.ret, "")
         IN  IF r.raised THEN StepFailed(r.st, "synthetic")
             ELSE IF mode = "test_case_content" /\ r.ret = ""
             THEN LET skipped == StepCompleted(r.st, "synthetic", "skipped", "", "")
                  IN  [skipped EXCEPT !.res.mode = "skipped"]
             ELSE [done EXCEPT !.res.mode = mode]

\* run_smoke_tests=config.get('run_smoke_tests', True)
_run_provisioning(st, dv, run_smoke_tests, o) ==
    IF LogStepRaises THEN Escaped(st, "provision")
    ELSE LET r == run_provision(_log_step(st, "provision", "started"), JobW, dv,
                                run_smoke_tests, o)
         IN  IF r.raised THEN StepFailed(r.st, "provision")
             ELSE StepCompleted(r.st, "provision", "completed", "", "")

---------------------------------------------------------------------------
(* Workflow orchestrator: execute_workflow *)

\* result["operations"].get(op, {}).get(field)
ResultOf(res, op) ==
    IF \E i \in 1..Len(res) : res[i].op = op
    THEN (CHOOSE r \in Range(res) : r.op = op)
    ELSE StepResult(op, "", "", "")

ExecutedOperations(res) == [i \in 1..Len(res) |-> res[i].op]

\* the arguments execute_workflow hands to classify_intent
WorkflowIntentArgs(r) ==
    [test_case_content |-> r.test_case_content,
     test_case_urls |-> r.test_case_urls,
     connection_string |-> r.connection_string,
     domain |-> r.domain,
     schema_version_id |-> Truthy(r.schema_version_id),
     config_flags |-> [has_operations |-> TRUE, operations |-> <<>>,
                       has_enable_subset |-> FALSE, enable_subset |-> FALSE]]

\* Dynamic Decision Engine: classify intent and get operations when not specified
ResolveOperations(r) ==
    IF r.operations_given THEN r.operations
    ELSE LET plan == generate_pipeline_plan(classify_intent(WorkflowIntentArgs(r)))
         IN  IF plan.operations = <<>> THEN StepOps ELSE plan.operations

\* Get schema_version_id from discovery or config
SchemaVersionId(res, r) ==
    OrElse(ResultOf(res, "discover").schema_version_id, r.schema_version_id)

\* Get dataset_version_id from subsetting or config
DatasetVersionIdForMask(res, r) ==
    OrElse(ResultOf(res, "subset").dataset_version_id, r.dataset_version_id)

\* Get dataset_version_id from synthetic, masking, subsetting, or config
DatasetVersionId(res, r) ==
    OrElse(ResultOf(res, "synthetic").dataset_version_id,
      OrElse(ResultOf(res, "mask").dataset_version_id,
        OrElse(ResultOf(res, "subset").dataset_version_id, r.dataset_version_id)))

Selected(op) == op \in Range(operations)

GateDiscover == Selected("discover")
GatePii == Selected("pii") /\ Truthy(SchemaVersionId(result, req))
GateSubset == Selected("subset") /\ Truthy(SchemaVersionId(result, req))

\* a plausible slip: masking gated on the operations list alone
MaskGateNoPrecondition == Selected("mask")
GateMask == Selected("mask") /\ Truthy(DatasetVersionIdForMask(result, req))

GateSynthetic == Selected("synthetic")
GateProvision == Selected("provision") /\ Truthy(DatasetVersionId(result, req))

InitialContext(ops) ==
    [operations |-> ops, schema_version_id |-> "", dataset_version_id |-> "",
     quality_score |-> FALSE, quality_report |-> FALSE, fallbacks_used |-> <<>>]

WorkflowResult(status, res) ==
    [kind |-> "workflow", overall_status |-> status, operations |-> ExecutedOperations(res)]

SetStore(st) ==
    /\ jobs' = st.jobs
    /\ finishedWrites' = st.fw
    /\ jobLogs' = st.logs
    /\ lineage' = st.lineage

---------------------------------------------------------------------------
(* FK-aware subsetter: the extraction of services/subsetting.run_subset.   *)
(* A source table is the sequence of its rows in the order the source      *)
(* returns them; a row has the columns id and ref, ref the FK column of    *)
(* every relationship edge and id the column it references; 0 is NULL.     *)

SubsetTables == {"parent", "child", "other"}

\* child_table -> [(parent_table, parent_col, child_col), ...], in the order
\* the relationship query returns the edges
RECURSIVE _build_fk_map(_)
_build_fk_map(relationships) ==
    IF relationships = <<>> THEN [t \in SubsetTables |-> <<>>]
    ELSE LET n == Len(relationships)
             rel == relationships[n]
             out == _build_fk_map(SubSeq(relationships, 1, n - 1))
         IN  [out EXCEPT ![rel.child] = Append(@, rel.parent)]

NullValue == 0

\* max_rows.get("*", 100_000)
DefaultMaxRows == 100000

\* parent_ids[:10000]
MaxPlaceholders == 10000

\* a plausible slip: df.tail(n), the last n rows kept
Tail_(rows, n) ==
    SubSeq(rows, IF Len(rows) <= n THEN 1 ELSE Len(rows) - n + 1, Len(rows))

\* df.head(n)
Head_(rows, n) == SubSeq(rows, 1, IF Len(rows) <= n THEN Len(rows) ELSE n)

\* max_rows.get(t, default_max); an entry 0 stands for an absent key
RowCap(max_rows, t) ==
    IF max_rows[t] # 0 THEN max_rows[t]
    ELSE IF max_rows["*"] # 0 THEN max_rows["*"]
    ELSE DefaultMaxRows

\* if root_table not in table_names:
\*     root_table = table_names[0] if table_names else root_table
ResolveRoot(inp) ==
    IF inp.root_table \in Range(inp.table_names) THEN inp.root_table
    ELSE IF inp.table_names # <<>> THEN inp.table_names[1]
    ELSE inp.root_table

\* WHERE "id" = :id, when filters has an entry for the root table
RootFilter(inp, root, rows) ==
    IF inp.filters.table = root
    THEN SelectSeq(rows, LAMBDA r : r.id = inp.filters.id)
    ELSE rows

\* extracted[parent_t][pcol].dropna().unique()
ParentIds(rows) ==
    FirstOccurrences([i \in 1..Len(rows) |-> rows[i].id], {NullValue})

NotExtracted == [present |-> FALSE, columns |-> FALSE, rows |-> <<>>]

Frame(rows) == [present |-> TRUE, columns |-> TRUE, rows |-> rows]

\* pd.DataFrame()
EmptyFrame == [present |-> TRUE, columns |-> FALSE, rows |-> <<>>]

SubsetLog(acc, level, kind, t) ==
    [acc EXCEPT !.logs = Append(@, [level |-> level, kind |-> kind, table |-> t])]

\* the root table: filter clause, LIMIT, head; a failing query is not
\* caught here and leaves the extraction
ExtractRoot(inp) ==
    LET root == ResolveRoot(inp)
        limit == RowCap(inp.max_rows, root)
        acc == [root |-> root, failed |-> FALSE, logs |-> <<>>,
                extracted |-> [t \in SubsetTables |-> NotExtracted]]
    IN  IF root \in inp.broken THEN [acc EXCEPT !.failed = TRUE]
        ELSE LET df == Head_(Head_(RootFilter(inp, root, inp.source[root]), limit), limit)
             IN  SubsetLog([acc EXCEPT !.extracted[root] = Frame(df)], "info", "root", root)

\* a plausible slip: the table is read whole, the IN clause on the parent's
\* ids left out
ExtractByForeignKeyUnfiltered(inp, t, acc) ==
    LET parent_t == _build_fk_map(inp.relationships)[t][1]
        parent == acc.extracted[parent_t]
    IN  IF ~parent.present THEN acc
        ELSE IF t \in inp.broken THEN [acc EXCEPT !.failed = TRUE]
        ELSE SubsetLog([acc EXCEPT !.extracted[t] =
                            Frame(Head_(inp.source[t], RowCap(inp.max_rows, t)))],
                       "info", "table", t)

\* a table with a relationship edge: only the first edge is used
ExtractByForeignKey(inp, t, acc) ==
    LET parent_t == _build_fk_map(inp.relationships)[t][1]
        parent == acc.extracted[parent_t]
    IN  IF ~parent.present THEN acc
        ELSE IF ~parent.columns THEN [acc EXCEPT !.failed = TRUE]
        ELSE LET parent_ids == ParentIds(parent.rows)
                 placeholders == Head_(parent_ids, MaxPlaceholders)
             IN  IF parent_ids = <<>> THEN [acc EXCEPT !.extracted[t] = EmptyFrame]
                 ELSE IF t \in inp.broken THEN [acc EXCEPT !.failed = TRUE]
                 ELSE LET edf == SelectSeq(inp.source[t],
                                           LAMBDA r : r.ref \in Range(placeholders))
                      IN  SubsetLog([acc EXCEPT !.extracted[t] =
                                         Frame(Head_(edf, RowCap(inp.max_rows, t)))],
                                    "info", "table", t)

\* a table without relationship edge: read whole, head; a failure is logged
ExtractWithoutForeignKey(inp, t, acc) ==
    IF t \in inp.broken THEN SubsetLog(acc, "warning", "failed", t)
    ELSE SubsetLog([acc EXCEPT !.extracted[t] =
                        Frame(Head_(inp.source[t], RowCap(inp.max_rows, t)))],
                   "info", "no_fk", t)

\* for child_t in table_names: ...
RECURSIVE ExtractTables(_, _, _)
ExtractTables(inp, i, acc) ==
    IF acc.failed \/ i > Len(inp.table_names) THEN acc
    ELSE LET t == inp.table_names[i]
         IN  IF t = acc.root THEN ExtractTables(inp, i + 1, acc)
             ELSE IF _build_fk_map(inp.relationships)[t] = <<>>
             THEN ExtractTables(inp, i + 1, ExtractWithoutForeignKey(inp, t, acc))
             ELSE ExtractTables(inp, i + 1, ExtractByForeignKey(inp, t, acc))

\* what run_subset returns and stores: the status of its Job, the new
\* dataset version and the row counts of the extracted tables
SubsetOutcome(acc, run) ==
    [status |-> IF acc.failed THEN "failed" ELSE "completed",
     dataset_version_id |-> IF acc.failed THEN 0 ELSE run,
     root |-> acc.root,
     extracted |-> acc.extracted,
     row_counts |-> [t \in SubsetTables |->
                        IF acc.extracted[t].present /\ ~acc.failed
                        THEN Len(acc.extracted[t].rows) ELSE -1],
     logs |-> acc.logs]

\* the extraction of one run_subset call; run is the uuid of its new
\* dataset version
Extract(inp, run) == SubsetOutcome(ExtractTables(inp, 1, ExtractRoot(inp)), run)

\* bound: the number of rows of the child table in the source
MaxChildRows == 3

ParentRows(ids) == [i \in 1..Len(ids) |-> [id |-> ids[i], ref |-> NullValue]]

ChildRows(refs) == [i \in 1..Len(refs) |-> [id |-> 10 + i, ref |-> refs[i]]]

OtherRows == <<[id |-> 21, ref |-> 11], [id |-> 22, ref |-> 12], [id |-> 23, ref |-> NullValue]>>

Edge(p, c) == [parent |-> p, child |-> c]

NoCaps == [t \in SubsetTables \cup {"*"} |-> 0]

NoFilter == [table |-> "", id |-> 0]

SubsetInputs ==
    [ table_names : { <<"parent", "child", "other">>,
                      <<"child", "parent", "other">>,
                      <<"other", "child", "parent">> },
      relationships : { <<>>,
                        <<Edge("parent", "child")>>,
                        <<Edge("parent", "child"), Edge("other", "child")>>,
                        <<Edge("other", "child"), Edge("parent", "child")>>,
                        <<Edge("parent", "child"), Edge("child", "other")>>,
                        <<Edge("other", "child"), Edge("child", "other")>> },
      source : { [t \in SubsetTables |->
                     CASE t = "parent" -> ParentRows(ids)
                       [] t = "child" -> ChildRows(refs)
                       [] OTHER -> OtherRows] :
                 ids \in {<<>>, <<1, 2, 3>>, <<2, 0, 1, 1>>},
                 refs \in SeqsUpTo({1, 2, 9}, MaxChildRows) },
      root_table : {"parent", "child", "missing"},
      filters : { NoFilter, [table |-> "parent", id |-> 1] },
      max_rows : { NoCaps, [NoCaps EXCEPT !["*"] = 2],
                   [NoCaps EXCEPT !["child"] = 1, !["parent"] = 2] },
      broken : {{}, {"child"}, {"other"}} ]

NoSubsetInput ==
    [table_names |-> <<>>, relationships |-> <<>>,
     source |-> [t \in SubsetTables |-> <<>>], root_table |-> "",
     filters |-> NoFilter, max_rows |-> NoCaps, broken |-> {}]

---------------------------------------------------------------------------
(* Fallback layer: services/fallbacks.py.  A wrapper is given a script, the *)
(* outcome of each call it may make to its callables, in call order; it     *)
(* returns the number of calls made, whether it raised, whose result it     *)
(* returns, and the fallback events it hands back (has_events: the return   *)
(* value carries a fallbacks_used list at all).                             *)

\* bound: the largest max_retries given to with_provision_fallbacks
MaxRetries == 3

\* max_retries: int = 2
DefaultMaxRetries == 2

FallbackEvent(step, key, text, attempt) ==
    [step |-> step, key |-> key, text |-> text, attempt |-> attempt]

FallbackReturn(calls, value, has_events, events) ==
    [calls |-> calls, raised |-> FALSE, value |-> value,
     has_events |-> has_events, fallbacks_used |-> events]

FallbackRaise(calls) ==
    [calls |-> calls, raised |-> TRUE, value |-> "",
     has_events |-> FALSE, fallbacks_used |-> <<>>]

\* a plausible slip: events appended in the except branches only, so that a
\* headful result after an empty headless one comes back without event
with_crawl_fallbacks_except_only(script) ==
    LET after_headless ==
            IF script[1] = "raise"
            THEN <<FallbackEvent("playwright_headless", "error", "headless", 0)>>
            ELSE <<>>
    IN  IF script[1] = "entities" THEN FallbackReturn(1, "headless", TRUE, <<>>)
        ELSE IF script[2] = "entities"
        THEN FallbackReturn(2, "headful", TRUE, after_headless)
        ELSE FallbackReturn(3, "domain_pack", TRUE,
                 Append(after_headless,
                        FallbackEvent("domain_pack", "reason", "crawl unavailable", 0)))

\* script: <<headless crawl, headful crawl>>, each "entities", "empty" or
\* "raise"; the domain pack is a static template
with_crawl_fallbacks(script) ==
    LET after_headless ==
            IF script[1] = "raise"
            THEN <<FallbackEvent("playwright_headless", "error", "headless", 0)>>
            ELSE <<>>
    IN  IF script[1] = "entities" THEN FallbackReturn(1, "headless", TRUE, <<>>)
        ELSE IF script[2] = "entities"
        THEN FallbackReturn(2, "headful", TRUE,
                 Append(after_headless,
                        FallbackEvent("playwright_headful", "reason", "headless failed", 0)))
        ELSE LET after_headful ==
                     IF script[2] = "raise"
                     THEN Append(after_headless,
                                 FallbackEvent("playwright_headful", "error", "headful", 0))
                     ELSE after_headless
             IN  FallbackReturn(3, "domain_pack", TRUE,
                     Append(after_headful,
                            FallbackEvent("domain_pack", "reason", "crawl unavailable", 0)))

\* script: <<primary_fn, fallback_fn>>, each "ok" or "raise"
with_synthetic_fallbacks(script) ==
    IF script[1] = "ok" THEN FallbackReturn(1, "primary", FALSE, <<>>)
    ELSE IF script[2] = "ok" THEN FallbackReturn(2, "fallback", FALSE, <<>>)
    ELSE FallbackRaise(2)

\* for attempt in range(max_retries + 1): ...; prior: the result of
\* provision_fn carries a fallbacks_used list of its own
RECURSIVE ProvisionAttempts(_, _, _, _)
ProvisionAttempts(script, max_retries, prior, attempt) ==
    IF attempt > max_retries THEN FallbackRaise(attempt)
    ELSE IF script[attempt + 1] = "ok"
    THEN IF attempt > 0
         THEN FallbackReturn(attempt + 1, "provision", TRUE,
                  Append(prior.events, FallbackEvent("retry", "attempt", "", attempt)))
         ELSE FallbackReturn(attempt + 1, "provision", prior.present, prior.events)
    ELSE ProvisionAttempts(script, max_retries, prior, attempt + 1)

\* a plausible slip: range(max_retries), the last attempt never made
with_provision_fallbacks_short(script, max_retries, prior) ==
    ProvisionAttempts(script, max_retries - 1, prior, 0)

with_provision_fallbacks(script, max_retries, prior) ==
    ProvisionAttempts(script, max_retries, prior, 0)

NoPriorEvents == [present |-> FALSE, events |-> <<>>]

NoFallbackCall ==
    [phase |-> "idle", wrapper |-> "", script |-> <<>>, has_max_retries |-> FALSE,
     max_retries |-> 0, prior |-> NoPriorEvents,
     ret |-> FallbackRaise(0)]

FallbackCall(wrapper, script, given, n, prior) ==
    [phase |-> "request", wrapper |-> wrapper, script |-> script,
     has_max_retries |-> given, max_retries |-> n, prior |-> prior,
     ret |-> FallbackRaise(0)]

SeqsOfLen(S, n) == [1..n -> S]

FallbackCalls ==
    {FallbackCall("crawl", s, FALSE, 0, NoPriorEvents) :
        s \in SeqsOfLen({"entities", "empty", "raise"}, 2)}
    \cup {FallbackCall("synthetic", s, FALSE, 0, NoPriorEvents) :
        s \in SeqsOfLen({"ok", "raise"}, 2)}
    \cup UNION { {FallbackCall("provision", s, TRUE, n, pr) :
                    s \in SeqsOfLen({"ok", "raise"}, n + 1),
                    pr \in {NoPriorEvents,
                            [present |-> TRUE,
                             events |-> <<FallbackEvent("type_fix", "reason", "cast", 0)>>]}} :
                 n \in 0..MaxRetries }
    \cup {FallbackCall("provision", s, FALSE, 0, NoPriorEvents) :
        s \in SeqsOfLen({"ok", "raise"}, DefaultMaxRetries + 1)}

\* the value of the max_retries parameter
EffectiveMaxRetries(call) ==
    IF call.has_max_retries THEN call.max_retries ELSE DefaultMaxRetries

---------------------------------------------------------------------------
(* Masking: services/masking.run_mask over the dataset store.  The store   *)
(* maps a version id to its directory: absent, or the tables (parquet      *)
(* files) in it, each the sequence of the values of its one column.        *)

DatasetIds == {"dv1", "dv2", "u1", "u2"}

MaskTables == {"users", "orders"}

NoDir == [exists |-> FALSE, tables |-> [t \in MaskTables |-> <<>>], files |-> {}]

\* ensure_dataset_dir: mkdir(parents=True, exist_ok=True)
ensure_dataset_dir(store, id) ==
    IF store[id].exists THEN store ELSE [store EXCEPT ![id].exists = TRUE]

\* df.to_parquet(dir / f"{tname}.parquet")
WriteTable(store, id, t, rows) ==
    [store EXCEPT ![id].tables[t] = rows, ![id].files = @ \cup {t}]

\* the values of a column: a word, another word, an e-mail address, a card
\* number of sixteen digits, the empty string and a missing value (None or
\* NaN, "null").  The transformers are defined over these values
CellValues == {"v", "w", "a@b.c", "4111111111111111", "", "null"}

\* _mask_email_deterministic: a missing value and "" are kept; a value that
\* str.split("@") does not cut in two becomes "***@***.***"; otherwise
\* sha256((SALT + s.encode()).hex().encode()).hexdigest()[:8] + "@masked.local"
_mask_email_deterministic(val) ==
    IF val = "null" \/ val = "" THEN val
    ELSE IF val # "a@b.c" THEN "***@***.***"
    ELSE "707f5085@masked.local"

\* _mask_hash: a missing value and "" are kept; otherwise
\* sha256(SALT + str(val).encode()).hexdigest()[:16]
_mask_hash(val) ==
    CASE val = "null" \/ val = "" -> val
      [] val = "v" -> "9de42cd49b4836d9"
      [] val = "w" -> "f80fb851f2a4f139"
      [] val = "a@b.c" -> "7f3acbb06b5cc33c"
      [] val = "4111111111111111" -> "d7fe0693779af27e"

\* _mask_redact: a missing value and "" are kept, everything else is replaced
_mask_redact(val) == IF val = "null" \/ val = "" THEN val ELSE "REDACTED"

\* _mask_null
_mask_null(val) == "null"

\* _mask_fpe_pan: a missing value and "" are kept; a value with fewer than
\* four digits becomes "****"; otherwise the first four digits,
\* "-****-****-" and the last four
_mask_fpe_pan(val) ==
    IF val = "null" \/ val = "" THEN val
    ELSE IF val # "4111111111111111" THEN "****"
    ELSE "4111-****-****-1111"

\* TRANSFORMERS.get(rule_type, _mask_redact); "none": no rule names the table
Transform(rule_type, val) ==
    CASE rule_type = "none" -> val
      [] rule_type = "mask.email_deterministic" -> _mask_email_deterministic(val)
      [] rule_type = "mask.hash" -> _mask_hash(val)
      [] rule_type = "mask.redact" -> _mask_redact(val)
      [] rule_type = "mask.null" -> _mask_null(val)
      [] rule_type = "mask.fpe_pan" -> _mask_fpe_pan(val)
      [] OTHER -> _mask_redact(val)

\* df[col] = df[col].apply(fn)
MaskRows(rows, rule_type) == [i \in 1..Len(rows) |-> Transform(rule_type, rows[i])]

MaskReturn(store, status, raised, id, versions, edges) ==
    [store |-> store, status |-> status, raised |-> raised,
     masked_dataset_version_id |-> id, versions |-> versions, lineage |-> edges]

\* the loop over base_dir.glob("*.parquet"), for the files in `done`
RECURSIVE MaskFiles(_, _, _, _, _)
MaskFiles(store, src, out, rules, done) ==
    IF done = {} THEN store
    ELSE LET t == CHOOSE x \in done : TRUE
         IN  MaskFiles(WriteTable(store, out, t, MaskRows(store[src].tables[t], rules[t])),
                       src, out, rules, done \ {t})

\* a plausible slip: the masked tables written back under the input version
run_mask_in_place(store, dataset_version_id, rules, new_version_id, written, raises) ==
    IF ~store[dataset_version_id].exists
    THEN MaskReturn(store, "failed", FALSE, "", {}, <<>>)
    ELSE LET s1 == MaskFiles(store, dataset_version_id, dataset_version_id, rules, written)
         IN  IF raises THEN MaskReturn(s1, "failed", TRUE, "", {}, <<>>)
             ELSE MaskReturn(s1, "completed", FALSE, dataset_version_id,
                             {dataset_version_id},
                             <<[source_id |-> dataset_version_id,
                                target_id |-> dataset_version_id, operation |-> "mask"]>>)

\* run_mask from get_dataset_dir on.  new_version_id is what uuid4() gave;
\* `written` are the files handled before the loop ended: all of them, or
\* those before the one whose read or write raised (`raises`)
run_mask_files(store, dataset_version_id, rules, new_version_id, written, raises) ==
    IF ~store[dataset_version_id].exists
    THEN MaskReturn(store, "failed", FALSE, "", {}, <<>>)
    ELSE LET s1 == MaskFiles(ensure_dataset_dir(store, new_version_id),
                             dataset_version_id, new_version_id, rules, written)
         IN  IF raises THEN MaskReturn(s1, "failed", TRUE, "", {}, <<>>)
             ELSE MaskReturn(s1, "completed", FALSE, new_version_id,
                             {new_version_id},
                             <<[source_id |-> dataset_version_id,
                                target_id |-> new_version_id, operation |-> "mask"]>>)

\* the stores a call starts from: dv1 holds one or two tables, dv2 is
\* missing or an empty directory, u1 and u2 have never been issued
MaskStores ==
    { [id \in DatasetIds |->
          CASE id = "dv1" -> [exists |-> TRUE,
                              tables |-> [t \in MaskTables |->
                                             IF t \in files
                                             THEN (IF t = "users" THEN users ELSE <<"v">>)
                                             ELSE <<>>],
                              files |-> files]
            [] id = "dv2" -> [NoDir EXCEPT !.exists = empty_dir]
            [] OTHER -> NoDir] :
      files \in {{"users"}, {"users", "orders"}},
      users \in {<<"v", "">>, <<"v", "w">>, <<"a@b.c", "4111111111111111", "null">>},
      empty_dir \in BOOLEAN }

\* no rule, the five entries of TRANSFORMERS and a rule type that is none of them
MaskRuleTypes ==
    {"none", "mask.email_deterministic", "mask.hash", "mask.redact", "mask.null",
     "mask.fpe_pan", "mask.unknown"}

NoMaskReturn == MaskReturn([id \in DatasetIds |-> NoDir], "", FALSE, "", {}, <<>>)

NoMaskCall ==
    [phase |-> "idle", store0 |-> [id \in DatasetIds |-> NoDir],
     dataset_version_id |-> "", rules |-> [t \in MaskTables |-> "none"],
     ret |-> NoMaskReturn]

---------------------------------------------------------------------------
(* Schema discovery: the metadata writes of run_discovery, one database    *)
(* statement at a time, for two calls against the same source connection.  *)
(* Each call has its own session; a query sees what has been committed.    *)

Callers == {1, 2}

\* bound: the versions of the schema that exist before the two calls
MaxEarlierVersions == 2

NoCall == [pc |-> "idle", conn_id |-> 0, schema_id |-> 0, next_ver |-> 0]

\* tables connections (ids), schemas (id, source_connection_id) and
\* schema_versions (schema_id, version_number; by: the call that inserted
\* the row, 0 for an earlier one)
NoDiscovery ==
    [connections |-> {}, schemas |-> {}, versions |-> {},
     calls |-> [p \in Callers |-> NoCall]]

DiscoveryStart(db) == [db EXCEPT !.calls = [p \in Callers |-> [NoCall EXCEPT !.pc = "connection"]]]

\* the metadata a pair of calls starts from: nothing, or the connection and
\* its schema with n earlier versions
DiscoveryStores ==
    {DiscoveryStart(NoDiscovery)}
    \cup {DiscoveryStart([NoDiscovery EXCEPT
                !.connections = {1},
                !.schemas = {[id |-> 1, source_connection_id |-> 1]},
                !.versions = {[schema_id |-> 1, version_number |-> v, by |-> 0] :
                                 v \in 1..n}]) :
          n \in 0..MaxEarlierVersions}

\* gen_uuid for a new row of a table with the given rows
NewId(rows) == Cardinality(rows) + 1

Goto(d, p, pc) == [d EXCEPT !.calls[p].pc = pc]

\* _get_connection_id_or_create: db.query(Connection).filter(name).first()
QueryConnection(d, p, found) ==
    IF d.connections = {} THEN Goto(d, p, "connection_insert")
    ELSE Goto([d EXCEPT !.calls[p].conn_id = found], p, "schema")

\* _get_connection_id_or_create: db.add(conn); db.commit()
InsertConnection(d, p) ==
    LET id == NewId(d.connections)
    IN  Goto([d EXCEPT !.connections = @ \cup {id}, !.calls[p].conn_id = id], p, "schema")

SchemasOf(d, conn_id) == {x \in d.schemas : x.source_connection_id = conn_id}

\* db.query(Schema).filter(Schema.source_connection_id == conn_id).first()
QuerySchema(d, p, found) ==
    IF SchemasOf(d, d.calls[p].conn_id) = {} THEN Goto(d, p, "schema_insert")
    ELSE Goto([d EXCEPT !.calls[p].schema_id = found.id], p, "latest")

\* db.add(schema_obj); db.commit()
InsertSchema(d, p) ==
    LET id == NewId(d.schemas)
    IN  Goto([d EXCEPT !.schemas = @ \cup {[id |-> id,
                                             source_connection_id |-> d.calls[p].conn_id]},
                       !.calls[p].schema_id = id], p, "latest")

VersionNumbers(d, schema_id) ==
    {x.version_number : x \in {y \in d.versions : y.schema_id = schema_id}}

Max(S) == CHOOSE x \in S : \A y \in S : y <= x

\* latest = ...order_by(version_number.desc()).first(); next_ver = latest + 1
QueryLatest(d, p) ==
    LET numbers == VersionNumbers(d, d.calls[p].schema_id)
    IN  Goto([d EXCEPT !.calls[p].next_ver = IF numbers = {} THEN 1 ELSE Max(numbers) + 1],
             p, "version_insert")

\* db.add(sv); db.commit(): uq_schema_version (schema_id, version_number)
\* makes the commit raise IntegrityError when the number is taken; otherwise
\* the tables, columns and relationships of the version follow and the call
\* returns
InsertVersion(d, p) ==
    IF d.calls[p].next_ver \in VersionNumbers(d, d.calls[p].schema_id)
    THEN Goto(d, p, "raised")
    ELSE Goto([d EXCEPT !.versions = @ \cup {[schema_id |-> d.calls[p].schema_id,
                                              version_number |-> d.calls[p].next_ver,
                                              by |-> p]}], p, "returned")

---------------------------------------------------------------------------
(* Job polling surface: GET /workflow/logs/{job_id},                       *)
(* GET /workflow/status/{workflow_id} and GET /job/{job_id}.  The value of *)
(* a surfaced details field is "null" (None) or "map" (a dict).            *)

\* getattr(log, "details", None): what _log_step stored, None for the rows
\* of the services and when the mapped class has no such attribute
GetAttrDetails(l) ==
    IF "details" \in JobLogAttrs /\ l.step # "" THEN "map" ELSE "null"

Surfaced(l, details) ==
    [step |-> l.step, level |-> l.level, message |-> l.message, details |-> details]

\* db.query(JobLog).filter(JobLog.job_id == job_id).order_by(JobLog.created_at)
StoredLogs(j) == SelectSeq(jobLogs, LAMBDA l : l.job_id = j)

\* "details": (d or {}) if isinstance(d, dict) else {}
get_workflow_logs(j) ==
    [k \in 1..Len(StoredLogs(j)) |-> Surfaced(StoredLogs(j)[k], "map")]

\* only a Job with operation == "workflow" is found; "details": d or {}
get_workflow_status(j) ==
    IF j = JobW /\ jobs[j].status # "absent"
    THEN [k \in 1..Len(StoredLogs(j)) |->
             Surfaced(StoredLogs(j)[k],
                      IF GetAttrDetails(StoredLogs(j)[k]) = "null" THEN "map"
                      ELSE GetAttrDetails(StoredLogs(j)[k]))]
    ELSE <<>>

\* "details": getattr(l, "details", None)
get_job(j) ==
    IF jobs[j].status # "absent"
    THEN [k \in 1..Len(StoredLogs(j)) |->
             Surfaced(StoredLogs(j)[k], GetAttrDetails(StoredLogs(j)[k]))]
    ELSE <<>>

---------------------------------------------------------------------------
(* Requests *)

\* test-case contents a workflow is started with: none, "click on shop",
\* "enter email as test@example.com"
WorkflowContents == {<<>>, <<"click", "word">>, <<"verb", "word", "as", "sym">>}

\* url lists: none, one url
UrlLists == {<<>>, <<"url">>}

\* the explicit operations lists: every selection of up to two of the six
\* steps, all six, a selection without discover and synthetic, and two lists
\* that are not in the order discover .. provision
OperationLists ==
    {SelectSeq(StepOps, LAMBDA op : op \in S) :
        S \in {T \in SUBSET Range(StepOps) : Cardinality(T) <= 2}}
    \cup {StepOps, <<"pii", "subset", "mask", "provision">>}
    \cup {<<"synthetic", "discover">>, <<"provision", "mask", "discover">>}

WorkflowRequests ==
    {r \in [test_case_content : WorkflowContents,
            test_case_urls : UrlLists,
            connection_string : BOOLEAN,
            domain : BOOLEAN,
            operations_given : BOOLEAN,
            operations : OperationLists,
            schema_version_id : {"", "sv_config"},
            dataset_version_id : {"", "dv_config"}] :
        ~r.operations_given => r.operations = <<>>}

NoRequest ==
    [test_case_content |-> <<>>, test_case_urls |-> <<>>, connection_string |-> FALSE,
     domain |-> FALSE, operations_given |-> FALSE, operations |-> <<>>,
     schema_version_id |-> "", dataset_version_id |-> ""]

\* the single-operation invocations: the four routes, /synthetic in its
\* three modes, and a direct call of services/synthetic.py run_synthetic,
\* which makes its Job row itself
ServiceOps ==
    {"subset", "mask", "provision", "synthetic_schema", "synthetic_test_cases",
     "synthetic_domain", "run_synthetic"}

---------------------------------------------------------------------------
(* Actions of the workflow: POST /workflow/execute and its background task *)

orchestratorVars ==
    <<req, wfPc, operations, result, jobContext, attempted, handed, storeFault>>
storeVars == <<jobs, finishedWrites, jobLogs, lineage>>
decisionVars == <<ci, pd>>
libraryVars == <<sub, fb, mk, disc>>

\* execute_tdm_workflow: ids generated, task queued, ids returned
ExecuteTdmWorkflow ==
    /\ wfPc = "idle"
    /\ \E r \in WorkflowRequests : req' = r
    /\ wfPc' = "queued"
    /\ UNCHANGED <<operations, result, jobContext, attempted, handed, storeFault>>
    /\ UNCHANGED <<storeVars, svc, decisionVars, libraryVars>>

\* a plausible slip: the steps taken in the order in which the list names
\* them (`for op in operations:`)
BlockAfterAsListed(op, ops) ==
    LET listed == SelectSeq(ops, LAMBDA x : x \in Range(StepOps))
    IN  IF op = "" THEN (IF listed = <<>> THEN "finalize" ELSE listed[1])
        ELSE IF \E i \in 1..(Len(listed) - 1) : listed[i] = op
        THEN listed[PositionIn(listed, op) + 1]
        ELSE "finalize"

\* the if-block that execute_workflow comes to after the block of `op`
\* ("": after the Job row is created): the six blocks stand in the order of
\* StepOps, whatever the list `ops`, and Phase 5 follows the last
BlockAfter(op, ops) ==
    IF op = "" THEN StepOps[1]
    ELSE IF op = StepOps[Len(StepOps)] THEN "finalize"
    ELSE StepOps[PositionIn(StepOps, op) + 1]

\* execute_workflow up to the commit that creates the Job row
CreateWorkflowJob ==
    /\ wfPc = "queued"
    /\ operations' = ResolveOperations(req)
    /\ jobContext' = InitialContext(ResolveOperations(req))
    /\ \E committed \in BOOLEAN :
          IF committed
          THEN /\ jobs' = [jobs EXCEPT ![JobW] = RunningJob]
               /\ wfPc' = BlockAfter("", ResolveOperations(req))
               /\ UNCHANGED storeFault
          ELSE /\ wfPc' = "crashed"
               /\ storeFault' = TRUE
               /\ UNCHANGED jobs
    /\ UNCHANGED <<req, result, attempted, handed>>
    /\ UNCHANGED <<finishedWrites, jobLogs, lineage, svc, decisionVars, libraryVars>>

\* one `if <op> in operations ...: result["operations"][op] = self._run_...`
Step(op, gate, arg, h) ==
    /\ wfPc = op
    /\ IF gate
       THEN /\ attempted' = Append(attempted, op)
            /\ handed' = Append(handed, arg)
            /\ SetStore(h.st)
            /\ IF h.escaped
               THEN wfPc' = "handler" /\ UNCHANGED result
               ELSE wfPc' = BlockAfter(op, operations) /\ result' = Append(result, h.res)
       ELSE /\ wfPc' = BlockAfter(op, operations)
            /\ UNCHANGED <<result, attempted, handed, storeVars>>
    /\ UNCHANGED <<req, operations, jobContext, storeFault, svc, decisionVars, libraryVars>>

StepDiscover ==
    \E o \in OutcomesOf("discover") :
        Step("discover", GateDiscover, "",
             _run_discovery(Store, req.connection_string, o))

StepPii ==
    \E o \in OutcomesOf("pii") :
        Step("pii", GatePii, SchemaVersionId(result, req),
             _run_pii_detection(Store, SchemaVersionId(result, req), o))

StepSubset ==
    \E o \in OutcomesOf("subset") :
        Step("subset", GateSubset, SchemaVersionId(result, req),
             _run_subsetting(Store, SchemaVersionId(result, req), o))

StepMask ==
    \E o \in OutcomesOf("mask") :
        Step("mask", GateMask, DatasetVersionIdForMask(result, req),
             _run_masking(Store, DatasetVersionIdForMask(result, req), o))

StepSynthetic ==
    \E o \in OutcomesOf(SyntheticMode(SchemaVersionId(result, req),
                                      req.test_case_content,
                                      req.test_case_urls, req.domain)) :
        Step("synthetic", GateSynthetic, SchemaVersionId(result, req),
             _run_synthetic(Store, SchemaVersionId(result, req),
                                req.test_case_content, req.test_case_urls, req.domain, o))

\* the request's config is not kept in req: its run_smoke_tests is drawn here
StepProvision ==
    \E o \in OutcomesOf("provision"), run_smoke_tests \in BOOLEAN :
        Step("provision", GateProvision, DatasetVersionId(result, req),
             _run_provisioning(Store, DatasetVersionId(result, req), run_smoke_tests, o))

\* a plausible slip: the quality computation outside any try, its exception
\* leaving the try block of execute_workflow
QualityUnguarded(dv, computed) ==
    [escaped |-> Truthy(dv) /\ ~computed, set |-> Truthy(dv) /\ computed]

\* Phase 5: `if dataset_version_id: try: q = compute_dataset_quality(...)
\* ... except Exception as qe: logger.warning(...)`; `computed` is whether
\* compute_dataset_quality returned
Quality(dv, computed) ==
    [escaped |-> FALSE, set |-> Truthy(dv) /\ computed]

\* Update job context with results, quality score, terminal write of the try block
Finalize ==
    /\ wfPc = "finalize"
    /\ \E computed \in BOOLEAN, committed \in BOOLEAN :
          /\ jobContext' =
                [jobContext EXCEPT
                    !.schema_version_id = SchemaVersionId(result, req),
                    !.dataset_version_id = DatasetVersionId(result, req),
                    !.operations = ExecutedOperations(result),
                    !.quality_score = Quality(DatasetVersionId(result, req), computed).set,
                    !.quality_report = Quality(DatasetVersionId(result, req), computed).set]
          /\ IF Quality(DatasetVersionId(result, req), computed).escaped
             THEN /\ wfPc' = "handler"
                  /\ UNCHANGED <<jobs, finishedWrites, storeFault>>
             ELSE IF committed
             THEN /\ jobs' = [jobs EXCEPT ![JobW] =
                        [status |-> "completed", finished |-> TRUE,
                         result |-> WorkflowResult("running", result)]]
                  /\ finishedWrites' = [finishedWrites EXCEPT ![JobW] = @ + 1]
                  /\ wfPc' = "returned"
                  /\ UNCHANGED storeFault
             ELSE /\ wfPc' = "handler"
                  /\ storeFault' = TRUE
                  /\ UNCHANGED <<jobs, finishedWrites>>
    /\ UNCHANGED <<req, operations, result, attempted, handed>>
    /\ UNCHANGED <<jobLogs, lineage, svc, decisionVars, libraryVars>>

\* except Exception as e: of execute_workflow
WorkflowFailed ==
    /\ wfPc = "handler"
    /\ \E committed \in BOOLEAN :
          IF committed
          THEN /\ jobs' = [jobs EXCEPT ![JobW] =
                     [status |-> "failed", finished |-> TRUE,
                      result |-> [kind |-> "error", overall_status |-> "failed",
                                  operations |-> <<>>]]]
               /\ finishedWrites' = [finishedWrites EXCEPT ![JobW] = @ + 1]
               /\ wfPc' = "returned"
               /\ UNCHANGED storeFault
          ELSE /\ wfPc' = "crashed"
               /\ storeFault' = TRUE
               /\ UNCHANGED <<jobs, finishedWrites>>
    /\ UNCHANGED <<req, operations, result, jobContext, attempted, handed>>
    /\ UNCHANGED <<jobLogs, lineage, svc, decisionVars, libraryVars>>

---------------------------------------------------------------------------
(* Actions of a single-operation invocation: POST /subset, /mask,          *)
(* /provision, /synthetic and their background tasks                       *)

\* the router creates the Job row (status running) and queues the task
PostService ==
    /\ svc.pc = "idle"
    /\ \E op \in ServiceOps, run_smoke_tests \in BOOLEAN :
          /\ op # "provision" => run_smoke_tests
          /\ svc' = [pc |-> "queued", op |-> op, run_smoke_tests |-> run_smoke_tests,
                     runs |-> {}]
    /\ jobs' = [jobs EXCEPT ![JobS] = RunningJob]
    /\ UNCHANGED <<orchestratorVars, finishedWrites, jobLogs, lineage, decisionVars, libraryVars>>

ServiceCall(op, run_smoke_tests, st, j, o) ==
    CASE op = "subset" -> run_subset(st, j, "sv_request", o)
      [] op = "mask" -> run_mask(st, j, "dv_request", o)
      [] op = "provision" -> run_provision(st, j, "dv_request", run_smoke_tests, o)
      [] op = "synthetic_schema" -> generate_from_schema_version(st, j, "sv_request", o)
      [] op = "synthetic_test_cases" -> generate_from_test_cases(st, j, o)
      [] op = "synthetic_domain" -> generate_from_domain_scenario(st, j, o)
      [] OTHER -> run_synthetic(st, j, "sv_request", o)

\* the rows of the task's own job as its session finds them when it starts
OwnStore ==
    [jobs |-> [j \in JobIds |-> IF j = JobS THEN RunningJob ELSE AbsentJob],
     fw |-> [j \in JobIds |-> 0], logs |-> <<>>, lineage |-> <<>>, trace |-> <<>>]

\* what one db.commit() makes visible: the Job row as it is then, and the
\* job_logs and lineage rows added since the commit before
CommitOf(before, after) ==
    [job |-> after.jobs[JobS], fw |-> after.fw[JobS],
     logs |-> SubSeq(after.logs, Len(before.logs) + 1, Len(after.logs)),
     lineage |-> SubSeq(after.lineage, Len(before.lineage) + 1, Len(after.lineage))]

\* the commits of a call, first to last, from what the store held after each
Commits(T) ==
    [k \in 1..Len(T) |-> CommitOf(IF k = 1 THEN Image(OwnStore) ELSE T[k - 1], T[k])]

\* the runs the task can take: one for each thing the environment can make
\* of the call
ServiceRuns(op, run_smoke_tests) ==
    {Commits(T) : T \in {ServiceCall(op, run_smoke_tests, OwnStore, JobS, o).st.trace :
                             o \in OutcomesOf(op)}}

\* one db.commit() of the task reaches the store; `runs` are the runs that
\* start with this commit, cut to what comes after it
ServiceCommit(c, runs) ==
    /\ jobs' = [jobs EXCEPT ![JobS] = c.job]
    /\ finishedWrites' = [finishedWrites EXCEPT ![JobS] = c.fw]
    /\ jobLogs' = jobLogs \o c.logs
    /\ lineage' = lineage \o c.lineage
    /\ svc' = [svc EXCEPT !.pc = IF runs = {<<>>} THEN "done" ELSE "running",
                          !.runs = runs]

\* _run_subset_task, _run_mask_task, _run_provision_task, _run_synthetic_task:
\* the task runs up to its next db.commit(); what the environment makes of
\* the call shows in the commits as they come
RunServiceTask ==
    /\ svc.pc \in {"queued", "running"}
    /\ \E R \in {IF svc.pc = "queued" THEN ServiceRuns(svc.op, svc.run_smoke_tests)
                       ELSE svc.runs} :
          \E T \in R :
             ServiceCommit(Head(T), {Tail(U) : U \in {V \in R : Head(V) = Head(T)}})
    /\ UNCHANGED <<orchestratorVars, decisionVars, libraryVars>>

---------------------------------------------------------------------------
(* Specification of the job lifecycle *)

IdleOrchestrator ==
    /\ req = NoRequest
    /\ wfPc = "idle"
    /\ operations = <<>>
    /\ result = <<>>
    /\ jobContext = InitialContext(<<>>)
    /\ attempted = <<>>
    /\ handed = <<>>
    /\ storeFault = FALSE
    /\ jobs = [j \in JobIds |-> AbsentJob]
    /\ finishedWrites = [j \in JobIds |-> 0]
    /\ jobLogs = <<>>
    /\ lineage = <<>>
    /\ svc = [pc |-> "idle", op |-> "subset", run_smoke_tests |-> TRUE, runs |-> {}]

NoArgs ==
    [test_case_content |-> <<>>, test_case_urls |-> <<>>, connection_string |-> FALSE,
     domain |-> FALSE, schema_version_id |-> FALSE,
     config_flags |-> [has_operations |-> FALSE, operations |-> <<>>,
                       has_enable_subset |-> FALSE, enable_subset |-> FALSE]]

IdleDecision ==
    /\ ci = [phase |-> "idle", args |-> NoArgs, intent |-> InitialIntent,
             plan |-> generate_pipeline_plan(InitialIntent)]
    /\ pd = [phase |-> "idle", content |-> <<>>, has_form_fields |-> FALSE,
             raised |-> FALSE, needs |-> FALSE, reason |-> ""]

IdleSubset == sub = [phase |-> "idle", inp |-> NoSubsetInput, runs |-> <<>>, seen |-> <<>>]

IdleLibrary ==
    /\ IdleSubset
    /\ fb = NoFallbackCall
    /\ mk = NoMaskCall
    /\ disc = NoDiscovery

Init == IdleOrchestrator /\ IdleDecision /\ IdleLibrary

Next ==
    \/ ExecuteTdmWorkflow
    \/ CreateWorkflowJob
    \/ StepDiscover
    \/ StepPii
    \/ StepSubset
    \/ StepMask
    \/ StepSynthetic
    \/ StepProvision
    \/ Finalize
    \/ WorkflowFailed

Spec == Init /\ [][Next]_vars

\* a single-operation invocation has a Job row of its own and a session of
\* its own: its background task writes no row of another job
NextService ==
    \/ PostService
    \/ RunServiceTask

SpecService == Init /\ [][NextService]_vars

---------------------------------------------------------------------------
(* Specification of the decision engine: POST /workflow/classify-intent *)

\* none, blank, "click on shop", "enter email as test@example.com"
IntentContents == {<<>>, <<"sp">>, <<"click", "word">>, <<"verb", "word", "as", "sym">>}

IntentUrlLists == {<<>>, <<"blank">>, <<"url">>}

ConfigFlags ==
    {f \in [has_operations : BOOLEAN,
            operations : {<<>>, <<"subset">>},
            has_enable_subset : BOOLEAN,
            enable_subset : BOOLEAN] :
        /\ ~f.has_operations => f.operations = <<>>
        /\ ~f.has_enable_subset => ~f.enable_subset}

IntentArgs ==
    [test_case_content : IntentContents,
     test_case_urls : IntentUrlLists,
     connection_string : BOOLEAN,
     domain : BOOLEAN,
     schema_version_id : BOOLEAN,
     config_flags : ConfigFlags]

InitIntent ==
    /\ IdleOrchestrator
    /\ IdleLibrary
    /\ pd = [phase |-> "idle", content |-> <<>>, has_form_fields |-> FALSE,
             raised |-> FALSE, needs |-> FALSE, reason |-> ""]
    /\ \E a \in IntentArgs :
          ci = [phase |-> "request", args |-> a, intent |-> InitialIntent,
                plan |-> generate_pipeline_plan(InitialIntent)]

\* intent = classify_intent(...)
ClassifyIntent ==
    /\ ci.phase = "request"
    /\ ci' = [ci EXCEPT !.phase = "classified", !.intent = classify_intent(ci.args)]
    /\ UNCHANGED <<orchestratorVars, storeVars, svc, pd, libraryVars>>

\* plan = generate_pipeline_plan(intent)
GeneratePlan ==
    /\ ci.phase = "classified"
    /\ ci' = [ci EXCEPT !.phase = "planned", !.plan = generate_pipeline_plan(ci.intent)]
    /\ UNCHANGED <<orchestratorVars, storeVars, svc, pd, libraryVars>>

NextIntent == ClassifyIntent \/ GeneratePlan

SpecIntent == InitIntent /\ [][NextIntent]_vars

---------------------------------------------------------------------------
(* Specification of pattern detection: _has_form_fields and                *)
(* POST /workflow/analyze-test-case                                        *)

\* the methods class SyntheticDataGenerator defines
SyntheticDataGeneratorMethods ==
    {"__init__", "generate_from_schema_version", "generate_from_test_cases",
     "generate_from_test_case_content", "generate_from_domain_scenario",
     "_parse_test_case_content", "_infer_field_type", "_generate_value",
     "_generate_value_by_type", "_get_domain_schema", "_save_dataset_metadata"}

InitPattern ==
    /\ IdleOrchestrator
    /\ IdleLibrary
    /\ ci = [phase |-> "idle", args |-> NoArgs, intent |-> InitialIntent,
             plan |-> generate_pipeline_plan(InitialIntent)]
    /\ \E c \in SeqsUpTo(Tokens, MaxTokens) :
          pd = [phase |-> "request", content |-> c, has_form_fields |-> FALSE,
                raised |-> FALSE, needs |-> FALSE, reason |-> ""]

\* _has_form_fields(content)
HasFormFields ==
    /\ pd.phase = "request"
    /\ pd' = [pd EXCEPT !.phase = "matched",
                        !.has_form_fields = _has_form_fields(pd.content)]
    /\ UNCHANGED <<orchestratorVars, storeVars, svc, ci, libraryVars>>

\* analyze_test_case_content: the attribute lookup of
\* generator.test_case_needs_synthetic_data raises AttributeError when the
\* class defines no such method, and no response body is produced
AnalyzeTestCase ==
    /\ pd.phase \in {"request", "matched"}
    /\ pd' = [pd EXCEPT !.phase = "analyzed",
                        !.raised = "test_case_needs_synthetic_data"
                                       \notin SyntheticDataGeneratorMethods,
                        !.needs = FALSE,
                        !.reason = ""]
    /\ UNCHANGED <<orchestratorVars, storeVars, svc, ci, libraryVars>>

NextPattern == HasFormFields \/ AnalyzeTestCase

SpecPattern == InitPattern /\ [][NextPattern]_vars

---------------------------------------------------------------------------
(* Specification of the subsetter: two run_subset calls over one source    *)

InitSubset ==
    /\ IdleOrchestrator
    /\ IdleDecision
    /\ fb = NoFallbackCall
    /\ mk = NoMaskCall
    /\ disc = NoDiscovery
    /\ \E inp \in SubsetInputs :
          sub = [phase |-> "request", inp |-> inp, runs |-> <<>>, seen |-> <<>>]

\* bound: how far from the first row of a table a later scan may start
MaxScanOffset == 1

\* the rows of a table as a scan returns them that starts `scan` rows after
\* the first and wraps around
ScanFrom(rows, scan) ==
    [i \in 1..Len(rows) |-> rows[((i - 1 + scan) % Len(rows)) + 1]]

\* pd.read_sql_query(text('SELECT * FROM "t" ...'), engine): neither the
\* query of the root table nor the query of another table has an ORDER BY,
\* so the order of the rows returned is the source's choice
ReadSource(source, scan) == [t \in SubsetTables |-> ScanFrom(source[t], scan)]

\* run_subset(schema_version_id, connection_string, root_table, filters,
\* max_rows_per_table); the new dataset version is 1.  The rows of the
\* input are in the order in which the source returns them to this call;
\* `seen` keeps what each call was given
RunSubset ==
    /\ sub.phase = "request"
    /\ sub' = [sub EXCEPT !.phase = "first", !.runs = <<Extract(sub.inp, 1)>>,
                          !.seen = <<sub.inp.source>>]
    /\ UNCHANGED <<orchestratorVars, storeVars, svc, decisionVars, fb, mk, disc>>

\* the same call once more over the same source data, after the first has
\* stored its dataset version
RunSubsetAgain ==
    /\ sub.phase = "first"
    /\ \E scan \in 0..MaxScanOffset :
          sub' = [sub EXCEPT
                    !.phase = "second",
                    !.runs = Append(@, Extract([sub.inp EXCEPT
                                !.source = ReadSource(sub.inp.source, scan)], 2)),
                    !.seen = Append(@, ReadSource(sub.inp.source, scan))]
    /\ UNCHANGED <<orchestratorVars, storeVars, svc, decisionVars, fb, mk, disc>>

NextSubset == RunSubset \/ RunSubsetAgain

SpecSubset == InitSubset /\ [][NextSubset]_vars

---------------------------------------------------------------------------
(* Specification of the fallback layer: one call of a wrapper *)

InitFallback ==
    /\ IdleOrchestrator
    /\ IdleDecision
    /\ IdleSubset
    /\ mk = NoMaskCall
    /\ disc = NoDiscovery
    /\ \E call \in FallbackCalls : fb = call

FallbackDone(ret) ==
    /\ fb' = [fb EXCEPT !.phase = "done", !.ret = ret]
    /\ UNCHANGED <<orchestratorVars, storeVars, svc, decisionVars, sub, mk, disc>>

CrawlWithFallbacks ==
    /\ fb.phase = "request"
    /\ fb.wrapper = "crawl"
    /\ FallbackDone(with_crawl_fallbacks(fb.script))

SyntheticWithFallbacks ==
    /\ fb.phase = "request"
    /\ fb.wrapper = "synthetic"
    /\ FallbackDone(with_synthetic_fallbacks(fb.script))

ProvisionWithFallbacks ==
    /\ fb.phase = "request"
    /\ fb.wrapper = "provision"
    /\ FallbackDone(with_provision_fallbacks(fb.script, EffectiveMaxRetries(fb), fb.prior))

NextFallback == CrawlWithFallbacks \/ SyntheticWithFallbacks \/ ProvisionWithFallbacks

SpecFallback == InitFallback /\ [][NextFallback]_vars

---------------------------------------------------------------------------
(* Specification of masking: one run_mask call over a dataset store *)

InitMask ==
    /\ IdleOrchestrator
    /\ IdleDecision
    /\ IdleSubset
    /\ fb = NoFallbackCall
    /\ disc = NoDiscovery
    /\ \E store \in MaskStores, id \in {"dv1", "dv2"},
          rules \in [MaskTables -> MaskRuleTypes] :
          mk = [phase |-> "request", store0 |-> store, dataset_version_id |-> id,
                rules |-> rules, ret |-> NoMaskReturn]

\* uuid4(): an id that names no directory of the store
FreshIds(store) == {id \in DatasetIds : ~store[id].exists}

MaskDone(ret) ==
    /\ mk' = [mk EXCEPT !.phase = "done", !.ret = ret]
    /\ UNCHANGED <<orchestratorVars, storeVars, svc, decisionVars, sub, fb, disc>>

\* run_mask returns
RunMask ==
    /\ mk.phase = "request"
    /\ \E new_version_id \in FreshIds(mk.store0) :
          MaskDone(run_mask_files(mk.store0, mk.dataset_version_id, mk.rules,
                                  new_version_id,
                                  mk.store0[mk.dataset_version_id].files, FALSE))

\* run_mask raises while it reads or writes one of the files
RunMaskRaises ==
    /\ mk.phase = "request"
    /\ mk.store0[mk.dataset_version_id].exists
    /\ \E new_version_id \in FreshIds(mk.store0),
          failing \in mk.store0[mk.dataset_version_id].files :
          \E written \in SUBSET (mk.store0[mk.dataset_version_id].files \ {failing}) :
              MaskDone(run_mask_files(mk.store0, mk.dataset_version_id, mk.rules,
                                      new_version_id, written, TRUE))

NextMask == RunMask \/ RunMaskRaises

SpecMask == InitMask /\ [][NextMask]_vars

---------------------------------------------------------------------------
(* Specification of discovery: two run_discovery calls, interleaved at     *)
(* their database statements                                               *)

InitDiscovery ==
    /\ IdleOrchestrator
    /\ IdleDecision
    /\ IdleSubset
    /\ fb = NoFallbackCall
    /\ mk = NoMaskCall
    /\ \E d \in DiscoveryStores : disc = d

DiscoveryStep(d) ==
    /\ disc' = d
    /\ UNCHANGED <<orchestratorVars, storeVars, svc, decisionVars, sub, fb, mk>>

DiscoverConnectionQuery(p) ==
    /\ disc.calls[p].pc = "connection"
    /\ \E found \in disc.connections \cup {0} :
          /\ (found = 0) <=> (disc.connections = {})
          /\ DiscoveryStep(QueryConnection(disc, p, found))

DiscoverConnectionInsert(p) ==
    /\ disc.calls[p].pc = "connection_insert"
    /\ DiscoveryStep(InsertConnection(disc, p))

DiscoverSchemaQuery(p) ==
    /\ disc.calls[p].pc = "schema"
    /\ \E found \in SchemasOf(disc, disc.calls[p].conn_id)
                        \cup {[id |-> 0, source_connection_id |-> 0]} :
          /\ (found.id = 0) <=> (SchemasOf(disc, disc.calls[p].conn_id) = {})
          /\ DiscoveryStep(QuerySchema(disc, p, found))

DiscoverSchemaInsert(p) ==
    /\ disc.calls[p].pc = "schema_insert"
    /\ DiscoveryStep(InsertSchema(disc, p))

DiscoverLatestQuery(p) ==
    /\ disc.calls[p].pc = "latest"
    /\ DiscoveryStep(QueryLatest(disc, p))

DiscoverVersionInsert(p) ==
    /\ disc.calls[p].pc = "version_insert"
    /\ DiscoveryStep(InsertVersion(disc, p))

NextDiscovery ==
    \E p \in Callers :
        \/ DiscoverConnectionQuery(p)
        \/ DiscoverConnectionInsert(p)
        \/ DiscoverSchemaQuery(p)
        \/ DiscoverSchemaInsert(p)
        \/ DiscoverLatestQuery(p)
        \/ DiscoverVersionInsert(p)

SpecDiscovery == InitDiscovery /\ [][NextDiscovery]_vars

---------------------------------------------------------------------------
(* Properties *)

\* C2: for every Job, finished_at is written exactly once, in the transition
\* that makes the status completed or failed: a completed or failed Job has
\* finished_at set, a running Job has not.
C2_FinishedAtWithTerminalStatus ==
    \A j \in JobIds :
        /\ finishedWrites[j] <= 1
        /\ jobs[j].status \in Terminal => (jobs[j].finished /\ finishedWrites[j] = 1)
        /\ jobs[j].status = "running" => ~jobs[j].finished

\* C3: every accepted workflow ends with a Job row for the returned job id
\* whose status is completed or failed, whatever the steps, the Job-creation
\* write or the final status write raise.
C3_AcceptedWorkflowEndsTerminal ==
    wfPc \in {"returned", "crashed"} => jobs[JobW].status \in Terminal

MaskOnlyRequest ==
    /\ wfPc # "idle"
    /\ req.operations_given
    /\ req.operations = <<"mask">>
    /\ req.dataset_version_id = ""

\* C5: a workflow with operations = ["mask"] and no dataset-version id ends
\* completed; mask is never attempted (run_mask not called, no mask log) and
\* is absent from the executed operations of the final JobContext.  The
\* terminal status is stated for the runs whose store writes succeed.
C5_MaskWithoutDatasetIsSkipped ==
    MaskOnlyRequest =>
        /\ "mask" \notin Range(attempted)
        /\ \A i \in 1..Len(jobLogs) :
              jobLogs[i].job_id = JobW =>
                  jobLogs[i].step # "mask" /\ jobLogs[i].message # "Starting masking"
        /\ ~storeFault => wfPc \notin {"handler", "crashed"}
        /\ (wfPc = "returned" /\ ~storeFault) =>
              /\ jobs[JobW].status = "completed"
              /\ "mask" \notin Range(jobContext.operations)
              /\ "mask" \notin Range(jobs[JobW].result.operations)

C5_Witness ==
    /\ MaskOnlyRequest
    /\ wfPc = "returned"
    /\ jobs[JobW].status = "completed"
    /\ jobContext.operations = <<>>

NoDuplicates(s) == \A i, j \in 1..Len(s) : i # j => s[i] # s[j]

CanonicalOrder(s) ==
    \A i, j \in 1..Len(s) :
        (i < j /\ s[i] \in Range(StepOps) /\ s[j] \in Range(StepOps))
            => PositionIn(StepOps, s[i]) < PositionIn(StepOps, s[j])

\* C6: the operations list classify_intent returns holds no operation twice,
\* and its operations among discover, pii, subset, mask, synthetic,
\* provision appear in that relative order.
C6_OperationsUniqueAndOrdered ==
    ci.phase \in {"classified", "planned"} =>
        /\ NoDuplicates(ci.intent.operations)
        /\ CanonicalOrder(ci.intent.operations)

\* a classification that merged the connection, hint and masking rules
C6_Witness ==
    /\ ci.phase = "classified"
    /\ ci.args.connection_string
    /\ ci.args.domain
    /\ Len(ci.intent.operations) = 6

SubsetDisabled(flags) ==
    /\ flags.has_enable_subset
    /\ ~flags.enable_subset
    /\ "subset" \notin Range(FlagOperations(flags))

\* C7: with a non-empty connection string the returned operations include
\* discover and pii and requires_db is true; subset is included unless the
\* flag map disables it (enable_subset false and subset not in its operations).
C7_ConnectionStringOperations ==
    (ci.phase \in {"classified", "planned"} /\ ci.args.connection_string) =>
        /\ "discover" \in Range(ci.intent.operations)
        /\ "pii" \in Range(ci.intent.operations)
        /\ ci.intent.requires_db
        /\ "subset" \in Range(ci.intent.operations) <=> ~SubsetDisabled(ci.args.config_flags)

\* enable_subset is false and the flag map's operations list subset
C7_Witness ==
    /\ ci.phase = "classified"
    /\ ci.args.connection_string
    /\ ci.args.config_flags.has_enable_subset
    /\ ~ci.args.config_flags.enable_subset
    /\ "subset" \in Range(ci.args.config_flags.operations)
    /\ "subset" \in Range(ci.intent.operations)

AllInputsAbsent(a) ==
    /\ a.test_case_content = <<>>
    /\ a.test_case_urls = <<>>
    /\ ~a.connection_string
    /\ ~a.domain
    /\ ~a.schema_version_id
    /\ ~a.config_flags.has_operations
    /\ ~a.config_flags.has_enable_subset

\* C8: called with every input absent, classify_intent returns an intent with
\* an empty operations list, every requires_* flag false and
\* preferred_synthetic_mode schema.
C8_AbsentInputsEmptyIntent ==
    (ci.phase \in {"classified", "planned"} /\ AllInputsAbsent(ci.args)) =>
        /\ ci.intent.operations = <<>>
        /\ ~ci.intent.requires_ui_crawl
        /\ ~ci.intent.requires_db
        /\ ~ci.intent.requires_api
        /\ ~ci.intent.requires_domain_fallback
        /\ ci.intent.preferred_synthetic_mode = "schema"

C8_Witness ==
    /\ ci.phase = "classified"
    /\ AllInputsAbsent(ci.args)
    /\ ci.intent.operations = <<>>

\* C9: a workflow started without an operations list runs all six operations
\* discover, pii, subset, mask, synthetic, provision.
C9_NoOperationsListMeansAllSix ==
    (wfPc \notin {"idle", "queued"} /\ ~req.operations_given) => operations = StepOps

\* an enter/fill/input/type <value> as/in <field> phrase, or a call
DataEntryPhrase(s) ==
    \/ \E i \in 1..Len(s) : s[i] = "call"
    \/ \E i \in 1..Len(s) :
          /\ s[i] = "verb"
          /\ LET j == NextTok(s, i)
                 k == IF j = 0 THEN 0 ELSE NextTok(s, j)
                 m == IF k = 0 THEN 0 ELSE NextTok(s, k)
             IN  /\ m # 0
                 /\ s[j] \in {"word", "quoted", "qtext", "sym"}
                 /\ s[k] \in {"as", "in"}
                 /\ s[m] \in {"word", "quoted", "qtext", "sym"}

NavigationOnly(s) ==
    /\ ~IsBlank(s)
    /\ \A i \in 1..Len(s) : s[i] \in {"click", "word", "sp"}

\* C10: the needs-data decision is true for content with a data-entry phrase
\* or call, false for content of navigation and click steps only, and false
\* with a reason indicating emptiness for empty or blank content.
C10_NeedsDataDecision ==
    pd.phase = "analyzed" =>
        /\ ~pd.raised
        /\ DataEntryPhrase(pd.content) => pd.needs
        /\ NavigationOnly(pd.content) => ~pd.needs
        /\ IsBlank(pd.content) => (~pd.needs /\ pd.reason = "empty")

IdsOf(rows) == {rows[i].id : i \in 1..Len(rows)}

RefsOf(rows) == {rows[i].ref : i \in 1..Len(rows)}

ChildFollowsRootParent(run) ==
    /\ run.status = "completed"
    /\ run.root = "parent"
    /\ _build_fk_map(sub.inp.relationships)["child"] # <<>>
    /\ _build_fk_map(sub.inp.relationships)["child"][1] = "parent"
    /\ run.extracted["child"].present

\* C11: when the extraction is rooted at the parent table and the child's
\* first relationship edge points to it, every extracted child row carries an
\* FK value found in the id column of the extracted parent rows.
C11_SingleHopReferentialConsistency ==
    \A k \in 1..Len(sub.runs) :
        ChildFollowsRootParent(sub.runs[k]) =>
            RefsOf(sub.runs[k].extracted["child"].rows)
                \subseteq IdsOf(sub.runs[k].extracted["parent"].rows)

\* parent ids 1, 2, 3 and child rows referencing 1, 2, 9: the rows
\* referencing 1 and 2 are extracted, the row referencing 9 is not
C11_Witness ==
    /\ Len(sub.runs) >= 1
    /\ ChildFollowsRootParent(sub.runs[1])
    /\ sub.inp.source["parent"] = ParentRows(<<1, 2, 3>>)
    /\ sub.inp.source["child"] = ChildRows(<<1, 2, 9>>)
    /\ sub.runs[1].extracted["parent"].rows = ParentRows(<<1, 2, 3>>)
    /\ sub.runs[1].extracted["child"].rows
           = <<[id |-> 11, ref |-> 1], [id |-> 12, ref |-> 2]>>


TablesOf(run) == {t \in SubsetTables : run.row_counts[t] >= 0}

\* the same rows, whatever their order
SameRows(a, b) ==
    /\ Len(a) = Len(b)
    /\ \A r \in Range(a) \cup Range(b) :
           Cardinality({i \in 1..Len(a) : a[i] = r})
               = Cardinality({i \in 1..Len(b) : b[i] = r})

\* C12: two runs over the same source data and schema graph with the same
\* root table, filters and caps end alike and yield the same set of tables
\* with the same row count for each table.
C12_SubsettingIsDeterministic ==
    (/\ Len(sub.runs) = 2
     /\ \A t \in SubsetTables : SameRows(sub.seen[1][t], sub.seen[2][t]))
    => /\ sub.runs[1].status = sub.runs[2].status
       /\ TablesOf(sub.runs[1]) = TablesOf(sub.runs[2])
       /\ sub.runs[1].row_counts = sub.runs[2].row_counts

PrimaryRaisesSecondarySucceeds ==
    /\ fb.phase = "done"
    /\ fb.wrapper \in {"crawl", "synthetic"}
    /\ fb.script[1] = "raise"
    /\ fb.script[2] \in {"ok", "entities"}

\* C13: with a primary strategy that raises and a secondary that succeeds,
\* the wrapper returns the secondary's result together with exactly one
\* fallback event, and that event records the primary's failure.
C13_SecondaryResultWithOneEvent ==
    PrimaryRaisesSecondarySucceeds =>
        /\ ~fb.ret.raised
        /\ fb.ret.value \in {"fallback", "headful"}
        /\ fb.ret.has_events
        /\ Len(fb.ret.fallbacks_used) = 1
        /\ fb.ret.fallbacks_used[1].key = "error"

ProvisionCallDone == fb.phase = "done" /\ fb.wrapper = "provision"

\* the attempts the wrapper may make, numbered from 1
ProvisionAttemptsAllowed == 1..(EffectiveMaxRetries(fb) + 1)

FirstReturning ==
    CHOOSE k \in ProvisionAttemptsAllowed :
        /\ fb.script[k] = "ok"
        /\ \A j \in 1..(k - 1) : fb.script[j] = "raise"

\* C14: with_provision_fallbacks calls the provisioning function at most
\* max_retries + 1 times (3 by default) and stops at the first call that
\* returns; it raises when every attempt raised; the returned result gains a
\* {step: retry, attempt: n} event exactly when the returning attempt was not
\* the first, n being the number of failed attempts before it.
C14_BoundedRetry ==
    ProvisionCallDone =>
        /\ fb.ret.calls <= EffectiveMaxRetries(fb) + 1
        /\ ~fb.has_max_retries => fb.ret.calls <= 3
        /\ IF \E k \in ProvisionAttemptsAllowed : fb.script[k] = "ok"
           THEN /\ ~fb.ret.raised
                /\ fb.ret.calls = FirstReturning
                /\ fb.ret.fallbacks_used =
                       IF FirstReturning > 1
                       THEN Append(fb.prior.events,
                                   FallbackEvent("retry", "attempt", "", FirstReturning - 1))
                       ELSE fb.prior.events
                /\ fb.ret.has_events = (fb.prior.present \/ FirstReturning > 1)
           ELSE /\ fb.ret.raised
                /\ fb.ret.calls = EffectiveMaxRetries(fb) + 1

\* two failed attempts, then the third and last attempt of a default call
\* returns and carries the event of attempt 2
C14_Witness ==
    /\ ProvisionCallDone
    /\ ~fb.has_max_retries
    /\ fb.script = <<"raise", "raise", "ok">>
    /\ fb.ret.calls = 3
    /\ ~fb.ret.raised
    /\ fb.ret.fallbacks_used = <<FallbackEvent("retry", "attempt", "", 2)>>

\* C15: the plan carries the intent's operations unchanged, and its only
\* additions are the synthetic hints: mode url and crawl_first exactly when
\* the intent requires a UI crawl, use_domain_fallback exactly when it
\* requires the domain fallback.
C15_PlanIsThinExpansion ==
    ci.phase = "planned" =>
        /\ ci.plan.operations = ci.intent.operations
        /\ ci.plan.preferred_synthetic_mode = ci.intent.preferred_synthetic_mode
        /\ ci.plan.synthetic_hint.present
               = (ci.intent.requires_ui_crawl \/ ci.intent.requires_domain_fallback)
        /\ ci.plan.synthetic_hint.mode = (IF ci.intent.requires_ui_crawl THEN "url" ELSE "")
        /\ ci.plan.synthetic_hint.crawl_first = ci.intent.requires_ui_crawl
        /\ ci.plan.synthetic_hint.use_domain_fallback = ci.intent.requires_domain_fallback

\* a plan for URLs without schema: both hints, operations synthetic and
\* provision as in the intent
C15_Witness ==
    /\ ci.phase = "planned"
    /\ ci.intent.requires_ui_crawl
    /\ ci.intent.requires_domain_fallback
    /\ ci.plan.operations = <<"synthetic", "provision">>
    /\ ci.plan.synthetic_hint.mode = "url"
    /\ ci.plan.synthetic_hint.use_domain_fallback

UrlsGiven(a) == a.test_case_urls # <<>> /\ AnyNonBlank(a.test_case_urls)

\* C17: a call with at least one non-blank URL returns an intent that
\* requires a UI crawl, has synthetic among its operations and prefers the
\* synthetic mode url.
C17_UrlsMeanUrlMode ==
    (ci.phase \in {"classified", "planned"} /\ UrlsGiven(ci.args)) =>
        /\ ci.intent.requires_ui_crawl
        /\ "synthetic" \in Range(ci.intent.operations)
        /\ ci.intent.preferred_synthetic_mode = "url"

RuleAt(k, i, a) ==
    CASE k = 1 -> RuleConnection(i, a)
      [] k = 2 -> RuleUrls(i, a)
      [] k = 3 -> RuleDomain(i, a)
      [] k = 4 -> RuleContent(i, a)
      [] k = 5 -> RuleFallback(i, a)
      [] k = 6 -> RuleMask(i, a)
      [] OTHER -> RuleProvision(i, a)

RECURSIVE ApplyRules(_, _, _, _)
ApplyRules(order, n, i, a) ==
    IF n > 7 THEN [i EXCEPT !.operations = DeduplicateAndOrder(i.operations)]
    ELSE ApplyRules(order, n + 1, RuleAt(order[n], i, a), a)

\* C18: the returned intent is the one every order of evaluation of the
\* seven rules, followed by the re-sorting, yields.
C18_RuleOrderIrrelevant ==
    ci.phase \in {"classified", "planned"} =>
        \A order \in Permutations(1..7) :
            ApplyRules(order, 1, InitialIntent, ci.args) = ci.intent

ProvisionRuleLast == {order \in Permutations(1..7) : order[7] = 7}

\* C18 (amended): the flags and the operations of the returned intent are
\* those every order of evaluation of rules 1-6, followed by rule 7 and the
\* re-sorting, yields.
C18_FlagsAndOperationsOrderIrrelevant ==
    ci.phase = "classified" =>
        \A order \in ProvisionRuleLast :
            LET other == ApplyRules(order, 1, InitialIntent, ci.args)
            IN  /\ other.operations = ci.intent.operations
                /\ other.requires_db = ci.intent.requires_db
                /\ other.requires_ui_crawl = ci.intent.requires_ui_crawl
                /\ other.requires_domain_fallback = ci.intent.requires_domain_fallback

\* connection string, domain and form-field content: evaluating rules 1-6
\* backwards appends the operations in another order and prefers another
\* mode, yet yields the same six operations
C18_Witness ==
    /\ ci.phase = "classified"
    /\ ci.args.connection_string
    /\ ci.args.domain
    /\ ci.intent.preferred_synthetic_mode = "test_case"
    /\ Len(ci.intent.operations) = 6
    /\ ApplyRules(<<6, 5, 4, 3, 2, 1, 7>>, 1, InitialIntent, ci.args).operations
           = ci.intent.operations
    /\ ApplyRules(<<6, 5, 4, 3, 2, 1, 7>>, 1, InitialIntent, ci.args).preferred_synthetic_mode
           # ci.intent.preferred_synthetic_mode

\* C16: every log entry the polling surface returns (logs endpoint, workflow
\* status endpoint, job detail endpoint) has a map as details, never null.
C16_SurfacedDetailsIsMap ==
    \A j \in JobIds :
        \A e \in Range(get_workflow_logs(j)) \cup Range(get_workflow_status(j))
                 \cup Range(get_job(j)) :
            e.details = "map"

\* the step is named by the operations list and the request supplies what
\* its block asks for while no step has returned a result: a schema version
\* id for pii and subset, a dataset version id for mask and provision
ListedWithInput(op) ==
    /\ op \in Range(operations)
    /\ op \in {"pii", "subset"} => req.schema_version_id # ""
    /\ op \in {"mask", "provision"} => req.dataset_version_id # ""

SyntheticWithoutInputs ==
    /\ wfPc # "idle"
    /\ Selected("synthetic")
    /\ req.test_case_content = <<>>
    /\ req.test_case_urls = <<>>
    /\ ~req.domain
    /\ ~Truthy(SchemaVersionId(result, req))

\* C20: with synthetic in the operations list and none of content, URLs,
\* domain or schema version available, the synthetic step is not run, no
\* exception leaves it, no failed entry is logged for it, and the executed
\* operations of the final JobContext do not name it.
C20_SyntheticWithoutInputsIsSkipped ==
    SyntheticWithoutInputs =>
        /\ "synthetic" \notin Range(attempted)
        /\ ~(wfPc = "handler" /\ attempted # <<>>
                 /\ attempted[Len(attempted)] = "synthetic")
        /\ \A k \in 1..Len(jobLogs) :
               ~(jobLogs[k].step = "synthetic" /\ jobLogs[k].level = "failed")
        /\ jobs[JobW].status = "completed"
               => "synthetic" \notin Range(jobContext.operations)

\* the steps attempted so far whose handler raised or returned a failure
RaisedSteps ==
    {op \in Range(attempted) : ResultOf(result, op).status \notin {"completed", "skipped"}}

FailedLogFor(op) ==
    \E k \in 1..Len(jobLogs) :
        /\ jobLogs[k].job_id = JobW
        /\ jobLogs[k].step = op
        /\ jobLogs[k].level = "failed"

\* C21: when a step of a workflow raises, a failed log entry is appended for
\* that step, the run goes on to the later steps instead of entering the
\* workflow's exception handler, and the Job ends completed, not failed.
C21_FailedStepIsLoggedAndRunContinues ==
    \A op \in RaisedSteps :
        /\ FailedLogFor(op)
        /\ wfPc \in {"handler", "crashed"} => storeFault
        /\ (wfPc = "returned" /\ ~storeFault) => jobs[JobW].status = "completed"

\* the id argument the handler of step op was called with, "" if it was not
HandedTo(op) ==
    IF \E k \in 1..Len(attempted) : attempted[k] = op
    THEN handed[CHOOSE k \in 1..Len(attempted) : attempted[k] = op]
    ELSE ""

\* C23: an attempted synthetic step that has one of its four inputs gets an
\* entry in the workflow result, and a completed one records the mode of the
\* first input present among test-case content, URLs, domain and schema
\* version id
C23_SyntheticModeByPriority ==
    ("synthetic" \in Range(attempted)
        /\ SyntheticMode(HandedTo("synthetic"), req.test_case_content,
                         req.test_case_urls, req.domain) # "")
    => LET r == ResultOf(result, "synthetic")
       IN  /\ r.status \in {"completed", "failed", "skipped"}
           /\ r.status = "completed" =>
                 r.mode = (IF req.test_case_content # <<>> THEN "test_case_content"
                           ELSE IF req.test_case_urls # <<>> THEN "test_cases"
                           ELSE IF req.domain THEN "domain"
                           ELSE "schema")

\* C25: when the test-case content has no form-field pattern, an attempted
\* synthetic step is recorded as skipped, with no dataset version id
C25_NavigationOnlyContentSkipsSynthetic ==
    ("synthetic" \in Range(attempted)
        /\ req.test_case_content # <<>>
        /\ ~_has_form_fields(req.test_case_content))
    => /\ ResultOf(result, "synthetic").status = "skipped"
       /\ ResultOf(result, "synthetic").dataset_version_id = ""

\* the quality computation was entered and raised: the context has the
\* dataset version id of the run and no score
QualityFailed == Truthy(jobContext.dataset_version_id) /\ ~jobContext.quality_score

\* C26: once the quality computation has failed, and unless a commit fails,
\* the workflow is never in its failure handler and the Job is never failed;
\* when it has returned the Job is completed, and quality_report is unset as
\* quality_score is
C26_QualityFailureNeverFailsWorkflow ==
    (QualityFailed /\ ~storeFault)
    => /\ wfPc = "returned"
       /\ jobs[JobW].status = "completed"
       /\ ~jobContext.quality_report

\* a run with a pre-supplied dataset version whose quality computation
\* raised has ended completed
C26_Witness ==
    /\ QualityFailed
    /\ wfPc = "returned"
    /\ jobs[JobW].status = "completed"
    /\ jobs[JobW].finished
    /\ req.dataset_version_id # ""

\* C27: once the background task is over after an exception left a step
\* handler or a commit failed, the Job is failed, its result holds the error
\* and finished_at is stamped
C27_EscapedExceptionLeavesJobFailed ==
    (wfPc \in {"returned", "crashed"} /\ (storeFault \/ RaisedSteps # {}))
    => /\ jobs[JobW].status = "failed"
       /\ jobs[JobW].finished
       /\ jobs[JobW].result.kind = "error"

\* the tables of the request whose source query fails
BrokenTables == sub.inp.broken \cap Range(sub.inp.table_names)

LoggedFor(run, level, t) ==
    \E i \in 1..Len(run.logs) : run.logs[i].level = level /\ run.logs[i].table = t

\* C28: a run over a source in which the query of one table fails completes,
\* the table is not in its result, and either a warning names the table or
\* the table was never read (nothing is logged for it)
C28_TableFailureIsCaughtPerTable ==
    \A k \in 1..Len(sub.runs) : \A t \in BrokenTables :
        /\ sub.runs[k].status = "completed"
        /\ ~sub.runs[k].extracted[t].present
        /\ LoggedFor(sub.runs[k], "warning", t) \/ ~LoggedFor(sub.runs[k], "info", t)

\* C29: a completed run has every table of the schema graph whose query
\* works in its result
C29_EveryTableAppears ==
    \A k \in 1..Len(sub.runs) :
        sub.runs[k].status = "completed" =>
            \A t \in Range(sub.inp.table_names) \ sub.inp.broken :
                sub.runs[k].extracted[t].present

\* max_rows_per_table[t] if given, else the "*" entry if given, else 100,000
CapOf(t) ==
    IF sub.inp.max_rows[t] # 0 THEN sub.inp.max_rows[t]
    ELSE IF sub.inp.max_rows["*"] # 0 THEN sub.inp.max_rows["*"]
    ELSE 100000

\* the rows of table t the run selects before truncation, in the order in
\* which the source returned the rows of the table to this run (`source`):
\* the filtered rows of the root, the rows whose FK value is an id of the
\* extracted first-edge parent, or all rows of a table without edge
SelectedRows(run, source, t) ==
    IF t = run.root
    THEN IF sub.inp.filters.table = t
         THEN SelectSeq(source[t], LAMBDA r : r.id = sub.inp.filters.id)
         ELSE source[t]
    ELSE IF _build_fk_map(sub.inp.relationships)[t] = <<>>
    THEN source[t]
    ELSE SelectSeq(source[t],
                   LAMBDA r : r.ref \in
                       IdsOf(run.extracted[_build_fk_map(sub.inp.relationships)[t][1]].rows)
                           \ {NullValue})

\* C30: every table in the result of a completed run has at most cap rows,
\* and its rows are the first rows, in source order, of the rows selected
\* for it: all of them when they are at most cap, the first cap otherwise
C30_RowsCappedKeepingFirst ==
    \A k \in 1..Len(sub.runs) : \A t \in SubsetTables :
        (sub.runs[k].status = "completed" /\ sub.runs[k].extracted[t].present) =>
            LET rows == sub.runs[k].extracted[t].rows
                selected == SelectedRows(sub.runs[k], sub.seen[k], t)
            IN  /\ Len(rows) <= CapOf(t)
                /\ sub.runs[k].row_counts[t] = Len(rows)
                /\ Len(rows) = (IF Len(selected) <= CapOf(t) THEN Len(selected) ELSE CapOf(t))
                /\ rows = SubSeq(selected, 1, Len(rows))

\* caps child = 1 and parent = 2 over parent ids 1, 2, 3 and three child rows
\* referencing 2, 1, 1: the parent keeps its first two rows, the child its
\* first row, and the table without entry keeps its three rows
C30_Witness ==
    /\ Len(sub.runs) >= 1
    /\ sub.runs[1].status = "completed"
    /\ sub.inp.max_rows = [NoCaps EXCEPT !["child"] = 1, !["parent"] = 2]
    /\ sub.inp.source["parent"] = ParentRows(<<1, 2, 3>>)
    /\ sub.inp.source["child"] = ChildRows(<<2, 1, 1>>)
    /\ sub.runs[1].root = "parent"
    /\ sub.runs[1].extracted["parent"].rows = ParentRows(<<1, 2>>)
    /\ sub.runs[1].extracted["child"].rows = <<[id |-> 11, ref |-> 2]>>
    /\ sub.runs[1].extracted["other"].rows = OtherRows

\* C31: a run whose requested root table is not among the tables of the
\* schema version is rooted at the first table, and its log has an entry
\* that records the fallback
C31_RootFallbackIsLogged ==
    \A k \in 1..Len(sub.runs) :
        sub.inp.root_table \notin Range(sub.inp.table_names) =>
            /\ sub.runs[k].root = sub.inp.table_names[1]
            /\ \E i \in 1..Len(sub.runs[k].logs) :
                   sub.runs[k].logs[i].kind = "root_fallback"

\* the calls of run_provision made for the workflow Job: each writes the
\* entry "Starting provisioning" first
ProvisionCalls ==
    Cardinality({k \in 1..Len(jobLogs) :
                    /\ jobLogs[k].job_id = JobW
                    /\ jobLogs[k].message = "Starting provisioning"})

\* C33: a provisioning step that raised has called run_provision once and
\* two more times, and is logged as failed
C33_ProvisionIsRetriedTwice ==
    "provision" \in RaisedSteps =>
        /\ ProvisionCalls = 1 + DefaultMaxRetries
        /\ FailedLogFor("provision")

CrawlCallDone == fb.phase = "done" /\ fb.wrapper = "crawl"

\* C34: a finished call of with_crawl_fallbacks has returned a schema: the
\* headless one after one call when that crawl gave entities, the headful
\* one after two calls when the headless crawl raised or gave none and the
\* headful one gave entities, the domain template after both crawls
\* otherwise; its event list is empty exactly when the headless crawl gave
\* entities
C34_CrawlStrategiesInOrder ==
    CrawlCallDone =>
        /\ ~fb.ret.raised
        /\ fb.ret.value \in {"headless", "headful", "domain_pack"}
        /\ (fb.ret.value = "headless") <=> (fb.script[1] = "entities")
        /\ (fb.ret.value = "headful")
               <=> (fb.script[1] # "entities" /\ fb.script[2] = "entities")
        /\ fb.ret.calls = (CASE fb.ret.value = "headless" -> 1
                             [] fb.ret.value = "headful" -> 2
                             [] OTHER -> 3)
        /\ (fb.ret.fallbacks_used = <<>>) <=> (fb.script[1] = "entities")

\* the headless crawl returns no entities without raising, the headful one
\* succeeds: the headful schema comes back with one event
C34_Witness ==
    /\ CrawlCallDone
    /\ fb.script = <<"empty", "entities">>
    /\ fb.ret.value = "headful"
    /\ Len(fb.ret.fallbacks_used) = 1

\* the positions in job_logs of the entries _log_step wrote for step op
\* with one of the given levels
StepEntries(op, levels) ==
    {k \in 1..Len(jobLogs) :
        /\ jobLogs[k].job_id = JobW
        /\ jobLogs[k].step = op
        /\ jobLogs[k].level \in levels}

\* C35: every attempted step has one started entry and, after it, exactly
\* one completed or failed entry, and all entries of a step attempted
\* earlier precede the entries of a step attempted later
C35_EveryAttemptedStepIsLogged ==
    /\ \A op \in Range(attempted) :
          /\ Cardinality(StepEntries(op, {"started"})) = 1
          /\ Cardinality(StepEntries(op, {"completed", "failed"})) = 1
          /\ \A a \in StepEntries(op, {"started"}) :
                \A b \in StepEntries(op, {"completed", "failed"}) : a < b
    /\ \A i, j \in 1..Len(attempted) :
          i < j => \A a \in StepEntries(attempted[i], {"started", "completed", "failed"}) :
                      \A b \in StepEntries(attempted[j], {"started", "completed", "failed"}) :
                          a < b

\* the request names discover or subset and has no connection string
MissingConnectionString ==
    /\ req.operations_given
    /\ ("discover" \in Range(req.operations) \/ "subset" \in Range(req.operations))
    /\ ~req.connection_string

\* C36: a request that names discover or subset without a connection string
\* is not accepted: its task is never queued or run and the store never has
\* a workflow Job for it
C36_MissingParameterIsRejected ==
    MissingConnectionString =>
        /\ wfPc = "idle"
        /\ jobs[JobW] = AbsentJob

MaskCallDone == mk.phase = "done"

\* C37: after a run_mask call every directory of the store other than the
\* one of the new version is as it was, the input version's included; a
\* completed call returns an id that differs from the input id and named no
\* directory before, and has recorded exactly one lineage edge, from the
\* input version to the new one; a call that did not complete has recorded
\* none
C37_MaskNeverOverwritesInput ==
    MaskCallDone =>
        /\ mk.ret.store[mk.dataset_version_id] = mk.store0[mk.dataset_version_id]
        /\ \A id \in DatasetIds :
              mk.ret.store[id] # mk.store0[id] =>
                  /\ ~mk.store0[id].exists
                  /\ mk.ret.status = "completed" => id = mk.ret.masked_dataset_version_id
        /\ mk.ret.status = "completed" =>
              /\ mk.ret.masked_dataset_version_id # mk.dataset_version_id
              /\ ~mk.store0[mk.ret.masked_dataset_version_id].exists
              /\ mk.ret.lineage = <<[source_id |-> mk.dataset_version_id,
                                     target_id |-> mk.ret.masked_dataset_version_id,
                                     operation |-> "mask"]>>
        /\ mk.ret.status # "completed" => mk.ret.lineage = <<>>

\* both tables of dv1 masked: the new version holds the masked values and
\* dv1 still holds the raw ones
C37_Witness ==
    /\ MaskCallDone
    /\ mk.ret.status = "completed"
    /\ mk.dataset_version_id = "dv1"
    /\ mk.rules = [t \in MaskTables |-> IF t = "users" THEN "mask.redact" ELSE "mask.null"]
    /\ mk.store0["dv1"].tables["users"] = <<"v", "">>
    /\ mk.ret.store["dv1"].tables["users"] = <<"v", "">>
    /\ mk.ret.store[mk.ret.masked_dataset_version_id].tables["users"] = <<"REDACTED", "">>
    /\ mk.ret.store[mk.ret.masked_dataset_version_id].tables["orders"] = <<"null">>

VersionsBy(p) == {x \in disc.versions : x.by = p}

\* C38: of two run_discovery calls against the same source connection
\* neither raises, and each that has returned has inserted one schema
\* version whose number is greater than that of every earlier version of
\* its schema and differs from the other call's
C38_ConcurrentDiscoveriesDoNotInterfere ==
    \A p \in Callers :
        /\ disc.calls[p].pc # "raised"
        /\ disc.calls[p].pc = "returned" =>
              /\ Cardinality(VersionsBy(p)) = 1
              /\ \A x \in VersionsBy(p) : \A y \in disc.versions :
                    (y.schema_id = x.schema_id /\ y.by # p) =>
                        /\ y.version_number # x.version_number
                        /\ y.by = 0 => y.version_number < x.version_number

\* C39: the persisted result of a completed workflow Job does not say
\* running or failed
C39_PersistedOverallStatusAgrees ==
    jobs[JobW].status = "completed" =>
        jobs[JobW].result.overall_status \notin {"running", "failed"}

\* C40: when the synthetic hint of a plan names a mode, it is the plan's
\* preferred_synthetic_mode
C40_HintModeIsPreferredMode ==
    (ci.plan.synthetic_hint.present /\ ci.plan.synthetic_hint.mode # "")
        => ci.plan.synthetic_hint.mode = ci.plan.preferred_synthetic_mode

====
